---- MODULE Spec2Model ----
(***************************************************************************)
(* A model of the datazone collection pipeline: the BullMQ-backed job      *)
(* queue, the producers that enqueue jobs and record them in scrape_jobs,  *)
(* the operator routes (suspend, resume, cancel) and the CollectionWorker  *)
(* that reconciles the job record, dispatches to the four handlers and     *)
(* writes products, prices and reviews.  Every await of the source is a    *)
(* step of its own, so that concurrent handlers interleave as they do in   *)
(* the Node process and between processes.                                 *)
(***************************************************************************)
EXTENDS Integers, Sequences, FiniteSets, TLC

(***************************************************************************)
(* Bounds of the model.                                                    *)
(***************************************************************************)
\* job ids the queue hands out when every operation of the service runs
MaxJobs == 1
\* job ids the queue hands out when collections run side by side
MaxPairJobs == 2
\* rows the prices table may hold before inserts block
MaxPriceRows == 3
\* rows the reviews table may hold before inserts block
MaxReviewRows == 2
\* items a search response may carry
MaxResults == 2
\* items a search response may carry when collections run side by side
MaxPairResults == 1
\* deliveries of one job the model follows (the queue's attempts option caps
\* them at Attempts)
MaxDeliveries == 3

\* the monthly call limit the UsageTracker is constructed with
\* (SCRAPERAPI_FREE_TIER_LIMIT), small enough for the quota to run out
MonthlyLimit == 3

\* collector callers (jobs, routes, processes) running side by side
MaxCallers == 2
\* calendar months the clock passes through
MaxMonths == 2
\* reviews one page of the reviews endpoint may carry
MaxPageSize == 2
\* the larger limit option given to collectReviews
MaxLimit == 6
\* a monthly limit that lets one collectReviews fetch all its pages
PagesLimit == 6
\* items in the list of a search response body
MaxBodyItems == 2
\* items in the results list of a search response body
MaxBodyResults == 1
\* reviews in the list of a reviews response body
MaxBodyReviews == 2
\* reviews in the list processReviews is given
MaxGivenReviews == 3

(***************************************************************************)
(* Program constants.                                                      *)
(***************************************************************************)
\* defaultJobOptions.attempts of the product-collection queue
Attempts == 3
\* the default of makeRequest's parameter maxRetries
maxRetries == 3
\* the length the ASIN pattern /^B[A-Z0-9]{9}$/ accepts
AsinLength == 10
\* the last page collectReviews asks for (currentPage <= 5)
MaxPages == 5

JobIds == 1..(IF MaxJobs > MaxPairJobs THEN MaxJobs ELSE MaxPairJobs)

(***************************************************************************)
(* Strings are sequences of one-character strings, so that trim, upper     *)
(* casing and the ASIN pattern are computed, not assumed.                  *)
(***************************************************************************)
UpperLetters == {"A", "B", "C", "X"}
LowerLetters == {"a", "b", "c", "x"}
Digits == {"0", "1"}
WhiteSpace == {" "}

UpperOf(c) ==
  CASE c = "a" -> "A"
    [] c = "b" -> "B"
    [] c = "c" -> "C"
    [] c = "x" -> "X"
    [] OTHER -> c

toUpperCase(s) == [i \in 1..Len(s) |-> UpperOf(s[i])]

RECURSIVE trimStart(_)
trimStart(s) ==
  IF s # <<>> /\ Head(s) \in WhiteSpace THEN trimStart(Tail(s)) ELSE s

RECURSIVE trimEnd(_)
trimEnd(s) ==
  IF s # <<>> /\ s[Len(s)] \in WhiteSpace
    THEN trimEnd(SubSeq(s, 1, Len(s) - 1))
    ELSE s

trim(s) == trimEnd(trimStart(s))

\* /^B[A-Z0-9]{9}$/
AsinPattern(s) ==
  /\ Len(s) = AsinLength
  /\ s[1] = "B"
  /\ \A i \in 2..AsinLength : s[i] \in UpperLetters \cup Digits

\* DataProcessor.isValidASIN
isValidASIN(s) == s # <<>> /\ AsinPattern(toUpperCase(trim(s)))

\* DataProcessor.validateASIN: the cleaned identifier; callers test
\* isValidASIN first, the error case is the throw.
validateASIN(s) == toUpperCase(trim(s))

(***************************************************************************)
(* The identifiers the model's jobs and responses use.                     *)
(***************************************************************************)
AsinA == <<"B", "0", "0", "0", "0", "0", "0", "0", "0", "A">>
\* AsinA as a user may type it: lower case, surrounded by blanks
AsinARaw == <<" ", "b", "0", "0", "0", "0", "0", "0", "0", "0", "a", " ">>
AsinC == <<"B", "0", "0", "0", "0", "0", "0", "0", "0", "C">>
\* wrong leading character
AsinBad == <<"X", "0", "0", "0", "0", "0", "0", "0", "0", "A">>


\* the identifiers a caller may put in a job
JobAsins == {AsinA, AsinARaw}

(***************************************************************************)
(* State.                                                                  *)
(***************************************************************************)
VARIABLES
  \* the BullMQ queue "product-collection": per job id its state, attempts
  \* made, data and failedReason
  queue,
  \* table scrape_jobs: a function from the ids that have a row to the row
  scrapeJobs,
  \* table products: a set of rows
  products,
  \* table prices: rows in insertion order
  prices,
  \* table reviews: rows in insertion order
  reviews,
  \* api_usage.calls_used of the current month
  callsUsed,
  \* per job id, where its producer call (triggerManualCollection or
  \* scheduleProductUpdates) stands
  producer,
  \* per job id, the locals of the processJob call that holds the job
  w,
  \* table api_usage: rows in insertion order, a row's id its position
  apiUsage,
  \* the calendar month of the wall clock
  clock,
  \* per caller, the fields of its UsageTracker: currentMonth, monthlyLimit
  tracker,
  \* per caller, the locals of the collector or tracker call it is in
  c,
  \* the last call of a function of the client, its schemas or the processor:
  \* the function, what it was given and what came back
  api,
  \* the locals of the makeRequest call under way, with the outcomes of its
  \* fetches and the times it has slept (ms)
  http

vars ==
  <<queue, scrapeJobs, products, prices, reviews, callsUsed, producer, w,
    apiUsage, clock, tracker, c, api, http>>

\* the state of the worker and its tables
workerVars == <<queue, scrapeJobs, products, prices, reviews, callsUsed, producer, w>>

\* the state of the collector's callers, their trackers and table api_usage
usageVars == <<apiUsage, clock, tracker, c>>

\* the calls of the client's and the processor's functions
clientVars == <<api, http>>

store == <<products, prices, reviews, callsUsed>>

(***************************************************************************)
(* Error messages, as the code builds them.                                *)
(***************************************************************************)
ErrDuplicateJob == "duplicate key value violates unique constraint scrape_jobs_pkey"
ErrDuplicateProduct == "duplicate key value violates unique constraint products_asin_unique"
ErrQuota == "API usage limit reached. Please wait until next month or upgrade plan."
ErrTransient == "ScraperAPI error"
ErrFetchFailed == "Failed to fetch product data"
ErrInvalidAsin == "Invalid ASIN format"
ErrAsinRequired == "ASIN is required"
ErrKeywordRequired == "Keyword is required for search job"
ErrNotFound == "Product not found"
ErrUnknownType == "Unknown job type"
ErrCancelled == "Cancelled by user"
ErrNullData == "Cannot read properties of null"
ErrInvalidEnum == "invalid input value for enum job_type"
ErrAsinNotString == "Invalid ASIN: must be a non-empty string"
ErrUndefinedData == "Cannot read properties of undefined"
ErrInvalidRating == "Invalid rating: must be between 1 and 5"

(***************************************************************************)
(* Rows and locals.                                                        *)
(***************************************************************************)
\* new Date(): a logical time, the number of the job's delivery under way
Now(j) == queue[j].attemptsMade + 1

\* jobTypeEnum: the values column scrape_jobs.type takes
JobTypes == {"product", "search", "review", "price_update"}

NoJob == [state |-> "none", attemptsMade |-> 0, data |-> <<>>, failedReason |-> ""]

\* the locals of processJob and of the handler it runs, between deliveries
Idle ==
  [pc |-> "idle", existed |-> FALSE, items |-> <<>>, item |-> <<>>,
   processed |-> <<>>, productId |-> <<>>, toInsert |-> <<>>, err |-> "",
   total |-> 0, successCount |-> 0, errorCount |-> 0]

NoProducer == [pc |-> "none", isScheduled |-> FALSE]

\* the row both producers insert
PendingRow(type, isScheduled) ==
  [type |-> type, status |-> "pending", error |-> "", isScheduled |-> isScheduled,
   startedAt |-> 0, completedAt |-> 0]

\* the row the worker inserts when it finds none
RunningRow(j) ==
  [type |-> queue[j].data[1].type, status |-> "running", error |-> "",
   isScheduled |-> FALSE, startedAt |-> Now(j), completedAt |-> 0]

\* the three updates of processJob, each where(eq(scrapeJobs.id, j)): no row,
\* no effect
MarkRunning(j) ==
  IF j \in DOMAIN scrapeJobs
    THEN [scrapeJobs EXCEPT ![j].status = "running", ![j].startedAt = Now(j)]
    ELSE scrapeJobs

MarkCompleted(j) ==
  IF j \in DOMAIN scrapeJobs
    THEN [scrapeJobs EXCEPT ![j].status = "completed", ![j].completedAt = Now(j)]
    ELSE scrapeJobs

\* MarkFailed without the error column
MarkFailed_DropsMessage(j, msg) ==
  IF j \in DOMAIN scrapeJobs
    THEN [scrapeJobs EXCEPT ![j].status = "failed", ![j].completedAt = Now(j)]
    ELSE scrapeJobs

MarkFailed(j, msg) ==
  IF j \in DOMAIN scrapeJobs
    THEN [scrapeJobs EXCEPT ![j].status = "failed", ![j].error = msg,
                            ![j].completedAt = Now(j)]
    ELSE scrapeJobs

\* db.insert(scrapeJobs): the primary key decides
InsertJob(j, row) == [i \in DOMAIN scrapeJobs \cup {j} |-> IF i = j THEN row ELSE scrapeJobs[i]]

\* the stored product a catalogue may already hold when the service starts
SeedProduct == [id |-> <<0, 0, 0>>, asin |-> AsinA, title |-> 0, rating |-> 0, reviewCount |-> 0]
SeedPrice == [productId |-> <<0, 0, 0>>, price |-> 1]
SeedReview == [productId |-> <<0, 0, 0>>, rating |-> 4, text |-> <<"o", "k">>]

Callers == 1..MaxCallers

\* the locals of a collector call, between calls: the operation and its limit
\* option (0: none), the page asked for, the reviews of the last page and of
\* all pages, the usage row read, and how the last call ended
NoCall ==
  [pc |-> "idle", op |-> "", limit |-> 0, page |-> 0, got |-> 0, all |-> 0,
   usage |-> <<>>, out |-> "", returned |-> 0, status |-> 0, resp |-> <<>>]

\* new UsageTracker(monthlyLimit): the month is computed once, here
NewUsageTracker(monthlyLimit) == [currentMonth |-> clock, monthlyLimit |-> monthlyLimit]

\* no request is under way
NoRequest ==
  [pc |-> "idle", attempt |-> 0, lastError |-> <<>>, fetched |-> <<>>,
   slept |-> <<>>, out |-> <<>>]

\* no function was called yet
NoApi == [fn |-> "", arg |-> <<>>, out |-> <<>>]

Init ==
  /\ api = NoApi
  /\ http = NoRequest
  /\ apiUsage = <<>>
  /\ clock = 1
  /\ tracker = [p \in Callers |-> [currentMonth |-> 1, monthlyLimit |-> MonthlyLimit]]
  /\ c = [p \in Callers |-> NoCall]
  /\ queue = [j \in JobIds |-> NoJob]
  /\ scrapeJobs = << >>
  /\ \/ products = {} /\ prices = <<>> /\ reviews = <<>>
     \/ products = {SeedProduct} /\ prices = <<SeedPrice>> /\ reviews = <<SeedReview>>
  /\ callsUsed = 0
  /\ producer = [j \in JobIds |-> NoProducer]
  /\ w = [j \in JobIds |-> Idle]

(***************************************************************************)
(* The queue (BullMQ): ids are handed out in order; a job that throws is   *)
(* delayed for its backoff and delivered again while attempts remain.      *)
(***************************************************************************)
NextJobId(j) == queue[j].state = "none" /\ \A i \in JobIds : i < j => queue[i].state # "none"

Enqueue(j, data) == [queue EXCEPT ![j] = [NoJob EXCEPT !.state = "waiting", !.data = <<data>>]]

\* the job's processor returned
Returned(j) == [queue EXCEPT ![j].state = "completed"]

\* the job's processor threw: attempts option of the queue, exponential backoff
Threw(j, msg) ==
  [queue EXCEPT ![j].attemptsMade = @ + 1,
                ![j].failedReason = msg,
                ![j].state = IF queue[j].attemptsMade + 1 < Attempts THEN "delayed" ELSE "failed"]

\* the backoff delay of a failed delivery has passed
Promote(j) ==
  /\ queue[j].state = "delayed"
  /\ queue[j].attemptsMade < MaxDeliveries
  /\ queue' = [queue EXCEPT ![j].state = "waiting"]
  /\ UNCHANGED <<scrapeJobs, store, producer, w, usageVars, clientVars>>

(***************************************************************************)
(* Producers.                                                              *)
(***************************************************************************)
\* triggerManualCollection, up to the job's id: the queue add
triggerManualCollection_add(j, type, asin) ==
  /\ NextJobId(j)
  /\ type \in {"product", "search", "review"}
  /\ asin \in JobAsins
  /\ queue' = Enqueue(j, [type |-> type, asin |-> IF type = "search" THEN <<>> ELSE asin])
  /\ producer' = [producer EXCEPT ![j] = [pc |-> "insert", isScheduled |-> FALSE]]
  /\ UNCHANGED <<scrapeJobs, store, w, usageVars, clientVars>>

\* scheduleProductUpdates, up to the job's id: the queue add
scheduleProductUpdates_add(j, asin) ==
  /\ NextJobId(j)
  /\ asin \in JobAsins
  /\ queue' = Enqueue(j, [type |-> "price_update", asin |-> asin])
  /\ producer' = [producer EXCEPT ![j] = [pc |-> "insert", isScheduled |-> TRUE]]
  /\ UNCHANGED <<scrapeJobs, store, w, usageVars, clientVars>>

\* a job put on the queue "product-collection" by a producer other than the
\* two above, its data.type none of the four the worker's switch knows
addUntypedJob(j, asin) ==
  /\ NextJobId(j)
  /\ asin \in JobAsins
  /\ queue' = Enqueue(j, [type |-> "other", asin |-> asin])
  /\ UNCHANGED <<scrapeJobs, store, producer, w, usageVars, clientVars>>

\* the producers' db.insert(scrapeJobs) of the pending row; a conflict on the
\* primary key is thrown to the caller
ProducerInsert(j) ==
  /\ producer[j].pc = "insert"
  /\ IF j \in DOMAIN scrapeJobs
       THEN /\ producer' = [producer EXCEPT ![j].pc = "threw"]
            /\ UNCHANGED scrapeJobs
       ELSE /\ producer' = [producer EXCEPT ![j].pc = "done"]
            /\ scrapeJobs' = InsertJob(j, PendingRow(queue[j].data[1].type, producer[j].isScheduled))
  /\ UNCHANGED <<queue, store, w, usageVars, clientVars>>

(***************************************************************************)
(* Operators.                                                              *)
(***************************************************************************)
\* POST /:jobId/suspend
Suspend(j) ==
  /\ j \in DOMAIN scrapeJobs
  /\ scrapeJobs' = [scrapeJobs EXCEPT ![j].status = "suspended"]
  /\ queue' = IF queue[j].state = "waiting" THEN [queue EXCEPT ![j].state = "removed"] ELSE queue
  /\ UNCHANGED <<store, producer, w, usageVars, clientVars>>

\* POST /:jobId/resume
Resume(j) ==
  /\ j \in DOMAIN scrapeJobs
  /\ scrapeJobs[j].status = "suspended"
  /\ scrapeJobs' = [scrapeJobs EXCEPT ![j].status = "pending"]
  /\ UNCHANGED <<queue, store, producer, w, usageVars, clientVars>>

\* cancelScheduledJob that updates the record of the job it removes
cancelScheduledJob_ById(j) ==
  /\ queue[j].state \in {"waiting", "delayed"}
  /\ queue' = [queue EXCEPT ![j].state = "removed"]
  /\ scrapeJobs' =
       [i \in DOMAIN scrapeJobs |->
          IF i = j /\ scrapeJobs[i].status = "pending"
            THEN [scrapeJobs[i] EXCEPT !.status = "failed", !.error = ErrCancelled,
                                       !.completedAt = Now(i)]
            ELSE scrapeJobs[i]]
  /\ UNCHANGED <<store, producer, w, usageVars, clientVars>>

\* JobScheduler.cancelScheduledJob
cancelScheduledJob(j) ==
  /\ queue[j].state \in {"waiting", "delayed"}
  /\ queue' = [queue EXCEPT ![j].state = "removed"]
  /\ scrapeJobs' =
       [i \in DOMAIN scrapeJobs |->
          IF scrapeJobs[i].status = "pending"
            THEN [scrapeJobs[i] EXCEPT !.status = "failed", !.error = ErrCancelled,
                                       !.completedAt = Now(i)]
            ELSE scrapeJobs[i]]
  /\ UNCHANGED <<store, producer, w, usageVars, clientVars>>


(***************************************************************************)
(* The external API, as the client hands its answers to the collector.     *)
(***************************************************************************)
\* reviews as they arrive: ScraperAPI's field names (stars, review) or the
\* canonical ones (rating, text); 0 and <<>> stand for an absent field
RawGood == [stars |-> 5, rating |-> 0, review |-> <<"o", "k">>, text |-> <<>>]
\* reviews as getProductReviews returns them, after its schema
CanonGood == [stars |-> 0, rating |-> 5, review |-> <<>>, text |-> <<"o", " ", " ", "k">>]
CanonBlank == [stars |-> 0, rating |-> 3, review |-> <<>>, text |-> <<" ">>]
ReviewLists == {<<>>, <<CanonGood>>, <<CanonBlank>>}

\* the ReviewsResponse around a list: its aggregate statistics
ReviewsResponse(list) ==
  [reviews |-> list, averageRating |-> IF list = <<>> THEN 0 ELSE 4,
   totalReviews |-> Len(list)]

\* a validated product: its identifier, its price (0: none) and the reviews
\* embedded in the product response (<<>>: none)
ProductDatas(asins) ==
  [asin : asins, price : {0, 1}, reviews : {<<>>, <<RawGood>>}]

\* the product rows of a search response
SearchItems == [asin : {AsinA, AsinBad}, price : {1}, reviews : {<<>>}]

RECURSIVE SeqsUpTo(_, _)
SeqsUpTo(S, n) ==
  IF n = 0 THEN {<<>>}
  ELSE LET shorter == SeqsUpTo(S, n - 1)
       IN shorter \cup {Append(q, x) : q \in {r \in shorter : Len(r) = n - 1}, x \in S}

SearchResults(n) == SeqsUpTo(SearchItems, n)

(***************************************************************************)
(* DataProcessor.                                                          *)
(***************************************************************************)
\* normalizeText: trim, runs of white space collapsed to one blank
RECURSIVE collapse(_)
collapse(s) ==
  IF Len(s) < 2 THEN s
  ELSE IF s[1] \in WhiteSpace /\ s[2] \in WhiteSpace THEN collapse(Tail(s))
  ELSE <<s[1]>> \o collapse(Tail(s))

normalizeText(s) == collapse(trim(s))

\* processProduct for job j's item number k: nanoid() gives a fresh id
processProduct(d, j, k) ==
  [id |-> <<j, Now(j), k>>, asin |-> validateASIN(d.asin), title |-> j,
   rating |-> 0, reviewCount |-> 0]

\* processPrice, for data that carries a price
processPrice(d, productId) == [productId |-> productId, price |-> d.price]

\* the worker's mapping of the API's review fields to the canonical ones
transformReview(r) ==
  [rating |-> IF r.stars # 0 THEN r.stars ELSE r.rating,
   text |-> IF r.review # <<>> THEN r.review ELSE r.text]

RECURSIVE processReviews(_, _)
processReviews(list, productId) ==
  IF list = <<>> THEN <<>>
  ELSE LET r == Head(list)
           keep == trim(r.text) # <<>> /\ r.rating >= 1 /\ r.rating <= 5
       IN (IF keep
             THEN <<[productId |-> productId, rating |-> r.rating,
                     text |-> normalizeText(r.text)]>>
             ELSE <<>>)
          \o processReviews(Tail(list), productId)

transformReviews(list) == [i \in 1..Len(list) |-> transformReview(list[i])]

(***************************************************************************)
(* Storage statements.                                                     *)
(***************************************************************************)
\* select().from(products).where(eq(products.asin, asin)).limit(1): <<>> or
\* the id of the row found; the column is compared as stored
SelectProductId(asin) ==
  IF \E r \in products : r.asin = asin
    THEN <<(CHOOSE r \in products : r.asin = asin).id>>
    ELSE <<>>

\* InsertConflicts without the unique constraint on products.asin
InsertConflicts_PrimaryKeyOnly(row) == \E r \in products : r.id = row.id

\* products.id is the primary key, products.asin is unique
InsertConflicts(row) == \E r \in products : r.asin = row.asin \/ r.id = row.id

UpdateConflicts(id, row) == \E r \in products : r.id # id /\ r.asin = row.asin

\* update(products).set({...processed, id}).where(eq(products.id, id))
UpdatedProducts(id, row) ==
  {IF r.id = id
     THEN [r EXCEPT !.asin = row.asin, !.title = row.title, !.reviewCount = row.reviewCount]
     ELSE r : r \in products}

\* delete(reviews).where(eq(reviews.productId, id))
ReviewsWithout(id) == SelectSeq(reviews, LAMBDA r : r.productId # id)

(***************************************************************************)
(* CollectionWorker.processJob: the dequeue-time protocol.                 *)
(***************************************************************************)
Data(j) == queue[j].data[1]

Goto(j, pc) == [w EXCEPT ![j].pc = pc]

\* an error thrown inside the try of processJob: the catch block is next
ToFail(msg) == [Idle EXCEPT !.pc = "fail", !.err = msg]

\* the handler returned: the completed update is next
ToComplete == [Idle EXCEPT !.pc = "complete"]

\* the switch on jobData.type
Dispatch(j) ==
  CASE Data(j).type = "product" -> [Idle EXCEPT !.pc = "existing"]
    [] Data(j).type = "search" -> [Idle EXCEPT !.pc = "search"]
    [] Data(j).type = "review" -> [Idle EXCEPT !.pc = "r_lookup"]
    [] Data(j).type = "price_update" -> [Idle EXCEPT !.pc = "u_lookup"]
    [] OTHER -> ToFail(ErrUnknownType)

\* the Worker takes a waiting job and calls processJob
Dequeue(j) ==
  /\ queue[j].state = "waiting"
  /\ w[j].pc = "idle"
  /\ queue' = [queue EXCEPT ![j].state = "active"]
  /\ w' = Goto(j, "select")
  /\ UNCHANGED <<scrapeJobs, store, producer, usageVars, clientVars>>

\* SelectJob without the check of the suspended status
SelectJob_IgnoresSuspended(j) ==
  /\ w[j].pc = "select"
  /\ w' = IF j \in DOMAIN scrapeJobs THEN Goto(j, "update") ELSE Goto(j, "insert")
  /\ UNCHANGED <<queue, scrapeJobs, store, producer, usageVars, clientVars>>

\* the select of the job's row and the branch on it
SelectJob(j) ==
  /\ w[j].pc = "select"
  /\ IF j \in DOMAIN scrapeJobs
       THEN IF scrapeJobs[j].status = "suspended"
              THEN w' = [w EXCEPT ![j] = Idle] /\ queue' = Returned(j)
              ELSE w' = Goto(j, "update") /\ UNCHANGED queue
       ELSE w' = Goto(j, "insert") /\ UNCHANGED queue
  /\ UNCHANGED <<scrapeJobs, store, producer, usageVars, clientVars>>

\* the row was found: update it to running, then dispatch
UpdateRunning(j) ==
  /\ w[j].pc = "update"
  /\ scrapeJobs' = MarkRunning(j)
  /\ w' = [w EXCEPT ![j] = Dispatch(j)]
  /\ UNCHANGED <<queue, store, producer, usageVars, clientVars>>

\* no row was found: insert it as running, then dispatch; on a duplicate
\* key, re-read; a type the column's enum does not have is rejected by the
\* database, the error is not a duplicate key and is thrown on
InsertRunning(j) ==
  /\ w[j].pc = "insert"
  /\ IF Data(j).type \notin JobTypes
       THEN w' = [w EXCEPT ![j] = ToFail(ErrInvalidEnum)] /\ UNCHANGED scrapeJobs
       ELSE IF j \in DOMAIN scrapeJobs
         THEN w' = Goto(j, "recheck") /\ UNCHANGED scrapeJobs
         ELSE w' = [w EXCEPT ![j] = Dispatch(j)] /\ scrapeJobs' = InsertJob(j, RunningRow(j))
  /\ UNCHANGED <<queue, store, producer, usageVars, clientVars>>

\* the re-read after the duplicate key
Recheck(j) ==
  /\ w[j].pc = "recheck"
  /\ w' = IF j \in DOMAIN scrapeJobs
            THEN Goto(j, "reupdate")
            ELSE [w EXCEPT ![j] = ToFail(ErrDuplicateJob)]
  /\ UNCHANGED <<queue, scrapeJobs, store, producer, usageVars, clientVars>>

\* the update to running of the duplicate-key path, then dispatch
ReupdateRunning(j) ==
  /\ w[j].pc = "reupdate"
  /\ scrapeJobs' = MarkRunning(j)
  /\ w' = [w EXCEPT ![j] = Dispatch(j)]
  /\ UNCHANGED <<queue, store, producer, usageVars, clientVars>>

\* Complete that leaves a row suspended in flight as it is
Complete_LeavesSuspended(j) ==
  /\ w[j].pc = "complete"
  /\ scrapeJobs' = IF j \in DOMAIN scrapeJobs /\ scrapeJobs[j].status = "suspended"
                     THEN scrapeJobs ELSE MarkCompleted(j)
  /\ queue' = Returned(j)
  /\ w' = [w EXCEPT ![j] = Idle]
  /\ UNCHANGED <<store, producer, usageVars, clientVars>>

\* the handler returned: the row is completed and processJob returns
Complete(j) ==
  /\ w[j].pc = "complete"
  /\ scrapeJobs' = MarkCompleted(j)
  /\ queue' = Returned(j)
  /\ w' = [w EXCEPT ![j] = Idle]
  /\ UNCHANGED <<store, producer, usageVars, clientVars>>

\* the catch block: the row is failed with the message, the error rethrown
Fail(j) ==
  /\ w[j].pc = "fail"
  /\ scrapeJobs' = MarkFailed(j, w[j].err)
  /\ queue' = Threw(j, w[j].err)
  /\ w' = [w EXCEPT ![j] = Idle]
  /\ UNCHANGED <<store, producer, usageVars, clientVars>>


(***************************************************************************)
(* AmazonCollector: each call checks the usage limit, calls the client and *)
(* records one unit of usage.                                              *)
(***************************************************************************)
\* UsageTracker.canMakeCall
canMakeCall == callsUsed < MonthlyLimit

\* the identifier of a product response: the one requested when the response
\* names none, or the one the response names
ResponseAsins(requested) == {requested, AsinC, AsinBad}

(***************************************************************************)
(* The item pipeline shared by the product and the search handler: upsert, *)
(* price, reviews.  A failure fails a product job and skips to the next    *)
(* item of a search job.                                                   *)
(***************************************************************************)
\* the locals the search handler keeps from one item to the next
Counts(loc) ==
  [Idle EXCEPT !.total = loc.total, !.successCount = loc.successCount,
               !.errorCount = loc.errorCount]

\* NextItem that ends the loop at the first item it cannot handle
RECURSIVE NextItem_StopsAtInvalid(_, _)
NextItem_StopsAtInvalid(loc, items) ==
  IF items = <<>> THEN [Counts(loc) EXCEPT !.pc = "complete"]
  ELSE IF isValidASIN(Head(items).asin)
    THEN [Counts(loc) EXCEPT !.pc = "detail", !.items = Tail(items), !.item = <<Head(items)>>]
    ELSE [Counts(loc) EXCEPT !.pc = "complete", !.errorCount = @ + 1]

\* NextItem that asks for the details of every item
NextItem_DetailForAll(loc, items) ==
  IF items = <<>> THEN [Counts(loc) EXCEPT !.pc = "complete"]
  ELSE [Counts(loc) EXCEPT !.pc = "detail", !.items = Tail(items), !.item = <<Head(items)>>]

\* the search handler's loop head: items whose identifier fails the format
\* check get no detail call, and processProduct throws on them
RECURSIVE NextItem(_, _)
NextItem(loc, items) ==
  IF items = <<>> THEN [Counts(loc) EXCEPT !.pc = "complete"]
  ELSE IF isValidASIN(Head(items).asin)
    THEN [Counts(loc) EXCEPT !.pc = "detail", !.items = Tail(items), !.item = <<Head(items)>>]
    ELSE NextItem([loc EXCEPT !.errorCount = @ + 1], Tail(items))

\* the per-item catch: errorCount++
ItemError(j, msg) ==
  IF Data(j).type = "product" THEN ToFail(msg)
  ELSE NextItem([w[j] EXCEPT !.errorCount = @ + 1], w[j].items)

\* the end of the item's try block: successCount++
ItemDone(j) ==
  IF Data(j).type = "product" THEN ToComplete
  ELSE NextItem([w[j] EXCEPT !.successCount = @ + 1], w[j].items)

\* the reviews to store are known: delete-and-reinsert when there are any
WithReviews(j, loc, list) ==
  IF list = <<>> THEN ItemDone(j)
  ELSE [loc EXCEPT !.pc = "delete",
                   !.toInsert = processReviews(transformReviews(list), loc.productId[1])]

\* after the price: reviews embedded in the product response win over a
\* separate fetch
ReviewStage(j, loc) ==
  IF loc.item[1].reviews # <<>>
    THEN WithReviews(j, loc, loc.item[1].reviews)
    ELSE [loc EXCEPT !.pc = "revfetch"]

\* the update or insert of the processed product, by what the select found
Upsert(j) ==
  /\ w[j].pc = "upsert"
  /\ LET loc == w[j]
         row == loc.processed[1]
         found == loc.productId # <<>>
         id == IF found THEN loc.productId[1] ELSE row.id
         conflict == IF found THEN UpdateConflicts(id, row) ELSE InsertConflicts(row)
         after == [loc EXCEPT !.productId = <<id>>]
     IN IF conflict
          THEN w' = [w EXCEPT ![j] = ItemError(j, ErrDuplicateProduct)] /\ UNCHANGED products
          ELSE /\ products' = IF found THEN UpdatedProducts(id, row) ELSE products \cup {row}
               /\ w' = [w EXCEPT ![j] = IF loc.item[1].price # 0
                                          THEN [after EXCEPT !.pc = "price"]
                                          ELSE ReviewStage(j, after)]
  /\ UNCHANGED <<queue, scrapeJobs, prices, reviews, callsUsed, producer, usageVars, clientVars>>

\* db.insert(prices).values(price)
InsertPrice(j) ==
  /\ w[j].pc = "price"
  /\ Len(prices) < MaxPriceRows
  /\ prices' = Append(prices, processPrice(w[j].item[1], w[j].productId[1]))
  /\ w' = [w EXCEPT ![j] = ReviewStage(j, w[j])]
  /\ UNCHANGED <<queue, scrapeJobs, products, reviews, callsUsed, producer, usageVars, clientVars>>

\* FetchReviews whose refused call is not caught
FetchReviews_QuotaThrows(j) ==
  /\ w[j].pc = "revfetch"
  /\ IF ~canMakeCall
       THEN w' = [w EXCEPT ![j] = ItemError(j, ErrQuota)] /\ UNCHANGED callsUsed
       ELSE IF callsUsed + 1 >= MonthlyLimit
         THEN w' = [w EXCEPT ![j] = ItemError(j, ErrQuota)] /\ callsUsed' = callsUsed + 1
         ELSE \E list \in ReviewLists :
                /\ callsUsed' = callsUsed + 2
                /\ w' = [w EXCEPT ![j] = WithReviews(j, w[j], list)]
  /\ UNCHANGED <<queue, scrapeJobs, products, prices, reviews, producer, usageVars, clientVars>>

\* collectReviews({asin, limit: 50}) inside the handler's try: page 1 holds
\* the list, page 2 is empty and ends the paging; a refused call is caught
\* and the item goes on without reviews
FetchReviews(j) ==
  /\ w[j].pc = "revfetch"
  /\ IF ~canMakeCall
       THEN w' = [w EXCEPT ![j] = ItemDone(j)] /\ UNCHANGED callsUsed
       ELSE IF callsUsed + 1 >= MonthlyLimit
         THEN w' = [w EXCEPT ![j] = ItemDone(j)] /\ callsUsed' = callsUsed + 1
         ELSE \E list \in ReviewLists :
                /\ callsUsed' = callsUsed + 2
                /\ w' = [w EXCEPT ![j] = WithReviews(j, w[j], list)]
  /\ UNCHANGED <<queue, scrapeJobs, products, prices, reviews, producer, usageVars, clientVars>>

\* db.delete(reviews).where(eq(reviews.productId, productId))
DeleteReviews(j) ==
  /\ w[j].pc = "delete"
  /\ reviews' = ReviewsWithout(w[j].productId[1])
  /\ w' = [w EXCEPT ![j] = IF w[j].toInsert = <<>> THEN ItemDone(j)
                           ELSE [w[j] EXCEPT !.pc = "insertReview"]]
  /\ UNCHANGED <<queue, scrapeJobs, products, prices, callsUsed, producer, usageVars, clientVars>>

\* one db.insert(reviews).values(review) of the loop
InsertReview(j) ==
  /\ w[j].pc = "insertReview"
  /\ Len(reviews) < MaxReviewRows
  /\ reviews' = Append(reviews, Head(w[j].toInsert))
  /\ w' = [w EXCEPT ![j] = IF Tail(w[j].toInsert) = <<>> THEN ItemDone(j)
                           ELSE [w[j] EXCEPT !.toInsert = Tail(@)]]
  /\ UNCHANGED <<queue, scrapeJobs, products, prices, callsUsed, producer, usageVars, clientVars>>

(***************************************************************************)
(* processProductJob.                                                      *)
(***************************************************************************)
IsProduct(j) == queue[j].data # <<>> /\ Data(j).type = "product"

\* the first select: is there a row for data.asin
P_Existing(j) ==
  /\ w[j].pc = "existing"
  /\ w' = [w EXCEPT ![j].pc = "fetch", ![j].existed = SelectProductId(Data(j).asin) # <<>>]
  /\ UNCHANGED <<queue, scrapeJobs, store, producer, usageVars, clientVars>>

\* P_Fetch whose null branch throws whether or not a row exists
P_Fetch_NullAlwaysThrows(j) ==
  /\ w[j].pc = "fetch"
  /\ IF ~canMakeCall
       THEN w' = [w EXCEPT ![j] = ToFail(ErrQuota)] /\ UNCHANGED callsUsed
       ELSE \/ w' = [w EXCEPT ![j] = ToFail(ErrTransient)] /\ UNCHANGED callsUsed
            \/ /\ callsUsed' = callsUsed + 1
               /\ w' = [w EXCEPT ![j] = ToFail(ErrFetchFailed)]
            \/ \E d \in ProductDatas(ResponseAsins(Data(j).asin)) :
                 /\ callsUsed' = callsUsed + 1
                 /\ w' = [w EXCEPT ![j] =
                            IF isValidASIN(d.asin)
                              THEN [Idle EXCEPT !.pc = "lookup2", !.item = <<d>>,
                                                !.processed = <<processProduct(d, j, 0)>>]
                              ELSE ToFail(ErrInvalidAsin)]
  /\ UNCHANGED <<queue, scrapeJobs, products, prices, reviews, producer, usageVars, clientVars>>

\* collectProductByASIN, the null branch and processProduct
P_Fetch(j) ==
  /\ w[j].pc = "fetch"
  /\ IF ~canMakeCall
       THEN w' = [w EXCEPT ![j] = ToFail(ErrQuota)] /\ UNCHANGED callsUsed
       ELSE \/ w' = [w EXCEPT ![j] = ToFail(ErrTransient)] /\ UNCHANGED callsUsed
            \/ /\ callsUsed' = callsUsed + 1
               /\ w' = [w EXCEPT ![j] = IF w[j].existed THEN ToComplete
                                        ELSE ToFail(ErrFetchFailed)]
            \/ \E d \in ProductDatas(ResponseAsins(Data(j).asin)) :
                 /\ callsUsed' = callsUsed + 1
                 /\ w' = [w EXCEPT ![j] =
                            IF isValidASIN(d.asin)
                              THEN [Idle EXCEPT !.pc = "lookup2", !.item = <<d>>,
                                                !.processed = <<processProduct(d, j, 0)>>]
                              ELSE ToFail(ErrInvalidAsin)]
  /\ UNCHANGED <<queue, scrapeJobs, products, prices, reviews, producer, usageVars, clientVars>>

\* the second select, by data.asin as the job carries it
P_Lookup(j) ==
  /\ IsProduct(j)
  /\ w[j].pc = "lookup2"
  /\ w' = [w EXCEPT ![j].pc = "upsert", ![j].productId = SelectProductId(Data(j).asin)]
  /\ UNCHANGED <<queue, scrapeJobs, store, producer, usageVars, clientVars>>

P_Upsert(j) == IsProduct(j) /\ Upsert(j)

P_Price(j) == IsProduct(j) /\ InsertPrice(j)

P_Reviews(j) == IsProduct(j) /\ FetchReviews(j)

P_DeleteReviews(j) == IsProduct(j) /\ DeleteReviews(j)

P_InsertReview(j) == IsProduct(j) /\ InsertReview(j)

(***************************************************************************)
(* processSearchJob.                                                       *)
(***************************************************************************)
IsSearch(j) == queue[j].data # <<>> /\ Data(j).type = "search"

\* collectProductsBySearch and the loop head
S_Search(j, n) ==
  /\ w[j].pc = "search"
  /\ IF ~canMakeCall
       THEN w' = [w EXCEPT ![j] = ToFail(ErrQuota)] /\ UNCHANGED callsUsed
       ELSE \/ w' = [w EXCEPT ![j] = ToFail(ErrTransient)] /\ UNCHANGED callsUsed
            \/ \E list \in SearchResults(n) :
                 /\ callsUsed' = callsUsed + 1
                 /\ w' = [w EXCEPT ![j] = NextItem([Idle EXCEPT !.total = Len(list)], list)]
  /\ UNCHANGED <<queue, scrapeJobs, products, prices, reviews, producer, usageVars, clientVars>>

\* the best-effort detail fetch of an item, then processProduct
S_Detail(j) ==
  /\ w[j].pc = "detail"
  /\ LET partial == w[j].item[1]
         With(d) ==
           IF isValidASIN(d.asin)
             THEN [w[j] EXCEPT !.pc = "lookup2", !.item = <<d>>,
                               !.processed = <<processProduct(d, j, Len(w[j].items) + 1)>>]
             ELSE NextItem([w[j] EXCEPT !.errorCount = @ + 1], w[j].items)
     IN IF ~canMakeCall
          THEN w' = [w EXCEPT ![j] = With(partial)] /\ UNCHANGED callsUsed
          ELSE \/ w' = [w EXCEPT ![j] = With(partial)] /\ UNCHANGED callsUsed
               \/ w' = [w EXCEPT ![j] = With(partial)] /\ callsUsed' = callsUsed + 1
               \/ \E d \in ProductDatas(ResponseAsins(partial.asin)) :
                    /\ callsUsed' = callsUsed + 1
                    /\ w' = [w EXCEPT ![j] = With(d)]
  /\ UNCHANGED <<queue, scrapeJobs, products, prices, reviews, producer, usageVars, clientVars>>

\* the select by processed.asin
S_Lookup(j) ==
  /\ IsSearch(j)
  /\ w[j].pc = "lookup2"
  /\ w' = [w EXCEPT ![j].pc = "upsert",
                    ![j].productId = SelectProductId(w[j].processed[1].asin)]
  /\ UNCHANGED <<queue, scrapeJobs, store, producer, usageVars, clientVars>>

S_Upsert(j) == IsSearch(j) /\ Upsert(j)

S_Price(j) == IsSearch(j) /\ InsertPrice(j)

S_Reviews(j) == IsSearch(j) /\ FetchReviews(j)

S_DeleteReviews(j) == IsSearch(j) /\ DeleteReviews(j)

S_InsertReview(j) == IsSearch(j) /\ InsertReview(j)


(***************************************************************************)
(* processReviewJob.                                                       *)
(***************************************************************************)
\* the select of the parent product, by data.asin
R_Lookup(j) ==
  /\ w[j].pc = "r_lookup"
  /\ LET id == SelectProductId(Data(j).asin)
     IN w' = [w EXCEPT ![j] = IF id = <<>> THEN ToFail(ErrNotFound)
                              ELSE [Idle EXCEPT !.pc = "r_fetch", !.productId = id]]
  /\ UNCHANGED <<queue, scrapeJobs, store, producer, usageVars, clientVars>>

\* collectReviews({asin, limit: data.limit}), no limit given: one page; then
\* processReviews.  When makeRequest has thrown after its retries,
\* getProductReviews catches the error (kept in err) and returns the empty
\* response, and the call is counted like any other
R_Fetch(j) ==
  /\ w[j].pc = "r_fetch"
  /\ IF ~canMakeCall
       THEN w' = [w EXCEPT ![j] = ToFail(ErrQuota)] /\ UNCHANGED callsUsed
       ELSE \/ /\ callsUsed' = callsUsed + 1
               /\ w' = [w EXCEPT ![j].pc = "r_update",
                                 ![j].item = <<ReviewsResponse(<<>>)>>,
                                 ![j].err = ErrTransient]
            \/ \E list \in ReviewLists :
                 LET rows == processReviews(list, w[j].productId[1])
                 IN /\ callsUsed' = callsUsed + 1
                    /\ w' = [w EXCEPT ![j].pc = IF rows = <<>> THEN "r_update" ELSE "r_insert",
                                      ![j].item = <<ReviewsResponse(list)>>,
                                      ![j].toInsert = rows]
  /\ UNCHANGED <<queue, scrapeJobs, products, prices, reviews, producer, usageVars, clientVars>>

\* one db.insert(reviews).values(review) of the loop
R_Insert(j) ==
  /\ w[j].pc = "r_insert"
  /\ Len(reviews) < MaxReviewRows
  /\ reviews' = Append(reviews, Head(w[j].toInsert))
  /\ w' = [w EXCEPT ![j].toInsert = Tail(@),
                    ![j].pc = IF Tail(w[j].toInsert) = <<>> THEN "r_update" ELSE "r_insert"]
  /\ UNCHANGED <<queue, scrapeJobs, products, prices, callsUsed, producer, usageVars, clientVars>>

\* the update of the parent's cached rating and review count
R_Update(j) ==
  /\ w[j].pc = "r_update"
  /\ products' = {IF r.id = w[j].productId[1]
                    THEN [r EXCEPT !.rating = w[j].item[1].averageRating,
                                   !.reviewCount = w[j].item[1].totalReviews]
                    ELSE r : r \in products}
  /\ w' = [w EXCEPT ![j] = ToComplete]
  /\ UNCHANGED <<queue, scrapeJobs, prices, reviews, callsUsed, producer, usageVars, clientVars>>

(***************************************************************************)
(* processPriceUpdateJob.                                                  *)
(***************************************************************************)
\* U_Lookup that lets a job for a missing product return
U_Lookup_MissingCompletes(j) ==
  /\ w[j].pc = "u_lookup"
  /\ LET id == SelectProductId(Data(j).asin)
     IN w' = [w EXCEPT ![j] = IF id = <<>> THEN ToComplete
                              ELSE [Idle EXCEPT !.pc = "u_fetch", !.productId = id]]
  /\ UNCHANGED <<queue, scrapeJobs, store, producer, usageVars, clientVars>>

\* the select of the product, by data.asin
U_Lookup(j) ==
  /\ w[j].pc = "u_lookup"
  /\ LET id == SelectProductId(Data(j).asin)
     IN w' = [w EXCEPT ![j] = IF id = <<>> THEN ToFail(ErrNotFound)
                              ELSE [Idle EXCEPT !.pc = "u_fetch", !.productId = id]]
  /\ UNCHANGED <<queue, scrapeJobs, store, producer, usageVars, clientVars>>

\* collectPriceHistory and processPrice; processPrice reads productData.price
\* of a null product and throws
U_Fetch(j) ==
  /\ w[j].pc = "u_fetch"
  /\ IF ~canMakeCall
       THEN w' = [w EXCEPT ![j] = ToFail(ErrQuota)] /\ UNCHANGED callsUsed
       ELSE \/ w' = [w EXCEPT ![j] = ToFail(ErrTransient)] /\ UNCHANGED callsUsed
            \/ w' = [w EXCEPT ![j] = ToFail(ErrNullData)] /\ callsUsed' = callsUsed + 1
            \/ \E d \in ProductDatas({Data(j).asin}) :
                 /\ d.reviews = <<>>
                 /\ callsUsed' = callsUsed + 1
                 /\ w' = [w EXCEPT ![j] = IF d.price = 0 THEN ToComplete
                                          ELSE [w[j] EXCEPT !.pc = "u_price", !.item = <<d>>]]
  /\ UNCHANGED <<queue, scrapeJobs, products, prices, reviews, producer, usageVars, clientVars>>

\* U_Price that overwrites the product's latest snapshot instead of appending
U_Price_Overwrites(j) ==
  /\ w[j].pc = "u_price"
  /\ prices # <<>>
  /\ prices' = [prices EXCEPT ![Len(prices)] = processPrice(w[j].item[1], w[j].productId[1])]
  /\ w' = [w EXCEPT ![j] = ToComplete]
  /\ UNCHANGED <<queue, scrapeJobs, products, reviews, callsUsed, producer, usageVars, clientVars>>

\* db.insert(prices).values(price)
U_Price(j) ==
  /\ w[j].pc = "u_price"
  /\ Len(prices) < MaxPriceRows
  /\ prices' = Append(prices, processPrice(w[j].item[1], w[j].productId[1]))
  /\ w' = [w EXCEPT ![j] = ToComplete]
  /\ UNCHANGED <<queue, scrapeJobs, products, reviews, callsUsed, producer, usageVars, clientVars>>

(***************************************************************************)
(* Values as the API delivers them: JSON, with undefined for a field that  *)
(* is absent.  Numbers are counted in hundredths, so that 171.95 is a      *)
(* value; strings are sequences of characters.                             *)
(***************************************************************************)
Undefined == [t |-> "undefined"]
Null == [t |-> "null"]
NaN == [t |-> "nan"]
\* the number n/100
Num(n) == [t |-> "num", v |-> n]
\* the whole number i
Whole(i) == Num(i * 100)
Str(s) == [t |-> "str", v |-> s]
Arr(q) == [t |-> "arr", v |-> q]
Obj(f) == [t |-> "obj", v |-> f]

\* x.f; on null and undefined the access throws, which the callers exclude
Prop(x, f) == IF x.t = "obj" /\ f \in DOMAIN x.v THEN x.v[f] ELSE Undefined

\* the conversion to boolean of if, !, || and &&
Truthy(x) ==
  CASE x.t \in {"undefined", "null", "nan"} -> FALSE
    [] x.t = "num" -> x.v # 0
    [] x.t = "str" -> x.v # <<>>
    [] x.t = "bool" -> x.v
    [] OTHER -> TRUE

\* typeof x === "object": null and arrays included
IsObjectType(x) == x.t \in {"null", "obj", "arr"}

\* a || b
OrElse(a, b) == IF Truthy(a) THEN a ELSE b

\* a ?? b
Coalesce(a, b) == IF a.t \in {"undefined", "null"} THEN b ELSE a

DigitChars == <<"0", "1", "2", "3", "4", "5", "6", "7", "8", "9">>

IsDigit(ch) == \E i \in DOMAIN DigitChars : DigitChars[i] = ch

DigitValue(ch) == (CHOOSE i \in DOMAIN DigitChars : DigitChars[i] = ch) - 1

\* the longest prefix of s made of digits
RECURSIVE DigitPrefix(_)
DigitPrefix(s) ==
  IF s # <<>> /\ IsDigit(Head(s)) THEN <<Head(s)>> \o DigitPrefix(Tail(s)) ELSE <<>>

\* the value of a run of digits
RECURSIVE DigitsValue(_)
DigitsValue(s) ==
  IF s = <<>> THEN 0 ELSE DigitsValue(SubSeq(s, 1, Len(s) - 1)) * 10 + DigitValue(s[Len(s)])

\* s without a leading sign
Unsigned(s) == IF s # <<>> /\ Head(s) \in {"-", "+"} THEN Tail(s) ELSE s

\* the digits after the point that rest begins with, if it does
Fraction(rest) ==
  IF rest # <<>> /\ Head(rest) = "." THEN DigitPrefix(Tail(rest)) ELSE <<>>

\* the hundredths the digits after the point stand for
Cents(frac) ==
  IF frac = <<>> THEN 0
  ELSE IF Len(frac) = 1 THEN DigitValue(frac[1]) * 10
  ELSE DigitValue(frac[1]) * 10 + DigitValue(frac[2])

\* the number with the digits whole before the point and frac after it; NaN
\* with no digit at all
FloatOf(negative, whole, frac) ==
  IF whole = <<>> /\ frac = <<>> THEN NaN
  ELSE Num((IF negative THEN 0 - 1 ELSE 1) * (DigitsValue(whole) * 100 + Cents(frac)))

\* the number that u, past the sign, begins with
FloatAt(negative, u, whole) ==
  FloatOf(negative, whole, Fraction(SubSeq(u, Len(whole) + 1, Len(u))))

\* the number that t, past the white space, begins with
FloatFrom(t) == FloatAt(t # <<>> /\ Head(t) = "-", Unsigned(t), DigitPrefix(Unsigned(t)))

\* parseFloat: leading white space, a sign, digits, a point and digits; what
\* follows is ignored, and with no digit at all the result is NaN
parseFloat(s) == FloatFrom(trimStart(s))

\* the whole number that t, past the white space, begins with
IntFrom(t) == FloatOf(t # <<>> /\ Head(t) = "-", DigitPrefix(Unsigned(t)), <<>>)

\* parseInt(s, 10): leading white space, a sign, digits; what follows is
\* ignored, and with no digit the result is NaN
parseInt(s) == IntFrom(trimStart(s))

\* of the characters price.replace(/[$,€£¥₹\s,]/g, "") removes, the ones the
\* strings of the model are written with
PriceNoise == {"$", ","} \cup WhiteSpace

\* parsePriceString
parsePriceString(price) ==
  IF price.t = "num" THEN price
  ELSE IF price.t = "str"
    THEN LET parsed == parseFloat(SelectSeq(price.v, LAMBDA ch : ch \notin PriceNoise))
         IN IF parsed = NaN THEN Undefined ELSE parsed
  ELSE Undefined

(***************************************************************************)
(* What the endpoints may deliver.                                         *)
(***************************************************************************)
\* the title of a product that has none, and the currencies
Untitled == Str(<<"U">>)
USD == Str(<<"U", "S", "D">>)
EUR == Str(<<"E", "U", "R">>)

\* the object with the fields of r that are defined
MakeObj(r) == Obj([f \in {g \in DOMAIN r : r[g] # Undefined} |-> r[f]])

\* "$171.95", "$1,250.50", "n/a"
Price171 == Str(<<"$", "1", "7", "1", ".", "9", "5">>)
Price1250 == Str(<<"$", " ", "1", ",", "2", "5", "0", ".", "5">>)
PriceNone == Str(<<"n", "/", "a">>)

\* {current: 50, original: 75, currency: "EUR"} and its neighbours
PriceEUR == Obj([current |-> Whole(50), original |-> Whole(75), currency |-> EUR])
PriceUSD == Obj([current |-> Whole(50), original |-> Whole(75), currency |-> USD])
PriceBare == Obj([current |-> Whole(50)])
\* current is not a number
PriceMalformed == Obj([current |-> Price171])

\* the products an endpoint may deliver, field by field
RawProducts ==
  {MakeObj(r) :
     r \in [asin : {Undefined, Str(AsinA), Str(AsinARaw), Str(<<" ">>), Str(<<>>), Whole(5)},
            title : {Undefined, Str(<<"t">>), Whole(7)},
            price : {Undefined, Null, Whole(188), Whole(0), Price171, Price1250, PriceNone,
                     PriceEUR, PriceUSD, PriceBare, PriceMalformed},
            pricing : {Undefined, Price171},
            list_price : {Undefined, Whole(200)},
            currency : {Undefined, EUR}]}

\* the items of a search response: two products, one without an identifier,
\* one with a blank identifier, one whose title and one whose identifier is
\* not a string, and two that are no objects
GoodItemA == MakeObj([asin |-> Str(AsinA), price |-> Whole(188)])
GoodItemC == MakeObj([asin |-> Str(AsinC), title |-> Str(<<"t">>)])
BodyItems ==
  {GoodItemA, GoodItemC,
   MakeObj([title |-> Str(<<"t">>)]),
   MakeObj([asin |-> Str(<<" ">>)]),
   MakeObj([asin |-> Str(AsinA), title |-> Whole(7)]),
   MakeObj([asin |-> Whole(5)]),
   Null, Str(<<"t">>)}

\* the lists of a search response
BodyLists(n) == {Arr(q) : q \in SeqsUpTo(BodyItems, n)}

\* the query asked for, and the one a response may name
Query == Str(<<"q">>)
OtherQuery == Str(<<"o">>)

\* the bodies the search endpoint may deliver
SearchBodies ==
  {Null, Whole(5), Whole(0), Str(<<"t">>), Str(<<>>), [t |-> "bool", v |-> FALSE]}
  \cup BodyLists(MaxBodyItems)
  \cup {MakeObj(r) :
          r \in [products : {Undefined, Null, Whole(0), Str(<<"t">>)} \cup BodyLists(MaxBodyItems),
                 results : {Undefined, Null, Str(<<"t">>)} \cup BodyLists(MaxBodyResults),
                 totalResults : {Undefined, Null, Whole(7), Str(<<"7">>)},
                 total : {Undefined, Whole(3)},
                 query : {Undefined, OtherQuery, Whole(1)}]}

\* "4", "4.5", "7", "0", "abc"
Rating4 == Str(<<"4">>)
Rating45 == Str(<<"4", ".", "5">>)
Rating7 == Str(<<"7">>)
Rating0 == Str(<<"0">>)
RatingWord == Str(<<"a", "b", "c">>)

\* the reviews the endpoint may deliver: the rating a number in or out of
\* 1..5, a string, null or absent
RawReviews ==
  {MakeObj(r) :
     r \in [rating : {Undefined, Null, Whole(1), Num(450), Whole(6), Whole(0),
                      Rating4, Rating45, Rating7, Rating0, RatingWord},
            text : {Undefined, Str(<<"o", "k">>)}]}
    \cup {MakeObj([rating |-> Whole(5), text |-> Whole(3)]), Null}

\* the bodies the reviews endpoint may deliver
ReviewBodies ==
  {Null, Whole(5), Arr(<<>>)}
  \cup {MakeObj(r) :
          r \in [reviews : {Undefined, Null}
                             \cup {Arr(q) : q \in SeqsUpTo(RawReviews, MaxBodyReviews)},
                 averageRating : {Undefined, Null, Num(450), Rating45, RatingWord},
                 totalReviews : {Undefined, Whole(12), Rating45}]}

(***************************************************************************)
(* The schemas of the client (zod).  A parse gives success and the data.   *)
(***************************************************************************)
Invalid == [success |-> FALSE, data |-> Undefined]
Valid(data) == [success |-> TRUE, data |-> data]

zString(x) == x.t = "str"
zNumber(x) == x.t = "num"
zOptional(ok, x) == x.t = "undefined" \/ ok

\* the object form of price: current a number, original and currency optional
zPriceObject(x) ==
  /\ x.t = "obj"
  /\ zNumber(Prop(x, "current"))
  /\ zOptional(zNumber(Prop(x, "original")), Prop(x, "original"))
  /\ zOptional(zString(Prop(x, "currency")), Prop(x, "currency"))

\* rawProductSchema, for the fields asin, title, price, pricing, list_price
\* and currency; the other fields are optional in the same way
rawProductSchema(x) ==
  LET opt(f, ok) == zOptional(ok, Prop(x, f))
      price == Prop(x, "price")
  IN IF /\ x.t = "obj"
        /\ opt("asin", zString(Prop(x, "asin")))
        /\ opt("title", zString(Prop(x, "title")))
        /\ opt("price", zNumber(price) \/ zString(price) \/ zPriceObject(price))
        /\ opt("pricing", zString(Prop(x, "pricing")) \/ zNumber(Prop(x, "pricing")))
        /\ opt("list_price", zString(Prop(x, "list_price")) \/ zNumber(Prop(x, "list_price")))
        /\ opt("currency", zString(Prop(x, "currency")))
       THEN Valid(x)
       ELSE Invalid

\* the transform's currentPrice: pricing first, then price by its form
currentPrice(price, pricing) ==
  IF pricing # Undefined THEN parsePriceString(pricing)
  ELSE IF price.t = "num" THEN price
  ELSE IF price.t = "str" THEN parsePriceString(price)
  ELSE IF price.t = "obj" THEN Prop(price, "current")
  ELSE Undefined

\* the transform's originalPrice: the original of the object form of price,
\* and list_price where that gave none
originalPrice(price, pricing, list_price) ==
  LET fromObject ==
        IF pricing = Undefined /\ price.t = "obj" THEN Prop(price, "original") ELSE Undefined
  IN IF Truthy(fromObject) THEN fromObject
     ELSE IF list_price # Undefined THEN parsePriceString(list_price)
     ELSE fromObject

\* the transform's price: an object if there is a current price
priceOf(current, original, currency) ==
  IF current # Undefined
    THEN Obj([current |-> current, original |-> original, currency |-> OrElse(currency, USD)])
    ELSE Undefined

\* the refinement on asin, then the transform, on data rawProductSchema accepts
transformProduct(data) ==
  LET asin == Prop(data, "asin")
  IN IF ~(Truthy(asin) /\ asin.t = "str" /\ trim(asin.v) # <<>>) THEN Invalid
     ELSE Valid(Obj([asin |-> asin,
                     title |-> OrElse(Prop(data, "title"), Untitled),
                     price |-> priceOf(currentPrice(Prop(data, "price"), Prop(data, "pricing")),
                                       originalPrice(Prop(data, "price"), Prop(data, "pricing"),
                                                     Prop(data, "list_price")),
                                       Prop(data, "currency"))]))

\* productDataSchema: rawProductSchema, the refinement on asin, the transform
productDataSchema(x) ==
  LET raw == rawProductSchema(x)
  IN IF raw.success THEN transformProduct(raw.data) ELSE Invalid

\* the items of a list that pass productDataSchema, normalized, in order
RECURSIVE validProducts(_)
validProducts(list) ==
  IF list = <<>> THEN <<>>
  ELSE LET result == productDataSchema(Head(list))
       IN (IF result.success THEN <<result.data>> ELSE <<>>) \o validProducts(Tail(list))

\* searchResponseSchema: the object is parsed with every item under
\* rawProductSchema, then the transform keeps the items productDataSchema
\* accepts
searchResponseSchema(x) ==
  LET rawProducts == Prop(x, "products")
      totalResults == Prop(x, "totalResults")
      query == Prop(x, "query")
      valid == validProducts(IF rawProducts = Undefined THEN <<>> ELSE rawProducts.v)
  IN IF /\ x.t = "obj"
        /\ zOptional(/\ rawProducts.t = "arr"
                     /\ \A i \in DOMAIN rawProducts.v : rawProductSchema(rawProducts.v[i]).success,
                     rawProducts)
        /\ zOptional(zNumber(totalResults), totalResults)
        /\ zOptional(zString(query), query)
       THEN Valid(Obj([products |-> Arr(valid),
                       totalResults |-> Coalesce(totalResults, Whole(Len(valid))),
                       query |-> Coalesce(query, Str(<<>>))]))
       ELSE Invalid

\* Math.max(1, Math.min(5, num))
Clamp(x) == IF x.v < 100 THEN Whole(1) ELSE IF x.v > 500 THEN Whole(5) ELSE x

\* the rating of reviewDataSchema: a number from 1 to 5, or a string, which
\* is parsed and clamped, 0 standing for a string that is no number
zRating(x) ==
  IF x.t = "num" /\ x.v >= 100 /\ x.v <= 500 THEN Valid(x)
  ELSE IF x.t = "str"
    THEN LET num == parseFloat(x.v)
         IN Valid(IF num = NaN THEN Whole(0) ELSE Clamp(num))
  ELSE Invalid

\* reviewDataSchema, for the fields rating and text; the other fields are
\* optional
reviewDataSchema(x) ==
  LET rating == zRating(Prop(x, "rating"))
      text == Prop(x, "text")
  IN IF x.t = "obj" /\ rating.success /\ zOptional(zString(text), text)
       THEN Valid(Obj([rating |-> rating.data, text |-> OrElse(text, Str(<<>>))]))
       ELSE Invalid

\* averageRating of reviewsResponseSchema: a number, or a string that is
\* parsed, 0 for none and for a string that is no number
zAverageRating(x) ==
  IF x.t = "undefined" THEN Valid(Whole(0))
  ELSE IF x.t = "num" THEN Valid(x)
  ELSE IF x.t = "str"
    THEN Valid(IF parseFloat(x.v) = NaN THEN Whole(0) ELSE parseFloat(x.v))
  ELSE Invalid

\* totalReviews of reviewsResponseSchema: the same, parsed as an integer
zTotalReviews(x) ==
  IF x.t = "undefined" THEN Valid(Whole(0))
  ELSE IF x.t = "num" THEN Valid(x)
  ELSE IF x.t = "str"
    THEN Valid(IF parseInt(x.v) = NaN THEN Whole(0) ELSE parseInt(x.v))
  ELSE Invalid

\* reviewsResponseSchema
reviewsResponseSchema(x) ==
  LET list == Prop(x, "reviews")
      averageRating == zAverageRating(Prop(x, "averageRating"))
      totalReviews == zTotalReviews(Prop(x, "totalReviews"))
  IN IF /\ x.t = "obj"
        /\ zOptional(/\ list.t = "arr"
                     /\ \A i \in DOMAIN list.v : reviewDataSchema(list.v[i]).success,
                     list)
        /\ averageRating.success
        /\ totalReviews.success
       THEN Valid(Obj([reviews |-> IF list = Undefined THEN Arr(<<>>)
                                   ELSE Arr([i \in DOMAIN list.v |-> reviewDataSchema(list.v[i]).data]),
                       averageRating |-> averageRating.data,
                       totalReviews |-> totalReviews.data]))
       ELSE Invalid

(***************************************************************************)
(* ScraperAPIClient: what its methods make of the body makeRequest         *)
(* returned.  A method returns a value or raises.                          *)
(***************************************************************************)
Returns(value) == [raised |-> FALSE, value |-> value]
Raises == [raised |-> TRUE, value |-> Undefined]
Throws(message) == [raised |-> TRUE, value |-> message]

\* a property of x can be read; of null and undefined the read is a TypeError
CanRead(x) == x.t \notin {"null", "undefined"}

\* {products: [], totalResults: 0, query: query}
EmptySearch(query) ==
  Obj([products |-> Arr(<<>>), totalResults |-> Whole(0), query |-> query])

\* the length of x if x is an array
LengthOr(x, other) == IF x.t = "arr" THEN Whole(Len(x.v)) ELSE other

\* the array x, or [] for anything else
ArrayOr(x) == IF x.t = "arr" THEN x ELSE Arr(<<>>)

\* searchProducts that tests only typeof response, which null passes
searchProducts_NoFalsyGuard(response, query) ==
  LET rawProducts == Prop(response, "products")
      results == Prop(response, "results")
      parsedResponse ==
        IF ~IsObjectType(response) THEN EmptySearch(query)
        ELSE IF response.t = "arr"
          THEN Obj([products |-> response, totalResults |-> Whole(Len(response.v)),
                    query |-> query])
        ELSE IF Truthy(results) /\ ~Truthy(rawProducts)
          THEN Obj([products |-> ArrayOr(results),
                    totalResults |-> OrElse(Prop(response, "totalResults"),
                                            OrElse(Prop(response, "total"),
                                                   LengthOr(results, Whole(0)))),
                    query |-> OrElse(Prop(response, "query"), query)])
        ELSE IF ~Truthy(rawProducts) /\ ~Truthy(results) THEN EmptySearch(query)
        ELSE Obj([products |-> ArrayOr(rawProducts),
                  totalResults |-> Coalesce(Prop(response, "totalResults"),
                                            LengthOr(rawProducts, Whole(0))),
                  query |-> OrElse(Prop(response, "query"), query)])
      validated == searchResponseSchema(parsedResponse)
  IN IF IsObjectType(response) /\ response.t # "arr" /\ ~CanRead(response) THEN Raises
     ELSE IF validated.success THEN Returns(validated.data)
     ELSE Returns(EmptySearch(query))

\* searchProducts, from the response of makeRequest on: the branches on the
\* structure of the response, then the schema inside try/catch
searchProducts(response, query) ==
  LET rawProducts == Prop(response, "products")
      results == Prop(response, "results")
      parsedResponse ==
        IF ~Truthy(response) \/ ~IsObjectType(response) THEN EmptySearch(query)
        ELSE IF response.t = "arr"
          THEN Obj([products |-> response, totalResults |-> Whole(Len(response.v)),
                    query |-> query])
        ELSE IF Truthy(results) /\ ~Truthy(rawProducts)
          THEN Obj([products |-> ArrayOr(results),
                    totalResults |-> OrElse(Prop(response, "totalResults"),
                                            OrElse(Prop(response, "total"),
                                                   LengthOr(results, Whole(0)))),
                    query |-> OrElse(Prop(response, "query"), query)])
        ELSE IF ~Truthy(rawProducts) /\ ~Truthy(results) THEN EmptySearch(query)
        ELSE Obj([products |-> ArrayOr(rawProducts),
                  totalResults |-> Coalesce(Prop(response, "totalResults"),
                                            LengthOr(rawProducts, Whole(0))),
                  query |-> OrElse(Prop(response, "query"), query)])
      validated == searchResponseSchema(parsedResponse)
  IN IF Truthy(response) /\ IsObjectType(response) /\ response.t # "arr" /\ ~CanRead(response)
       THEN Raises
     ELSE IF validated.success THEN Returns(validated.data)
     ELSE Returns(EmptySearch(query))

\* how makeRequest ends: with the body of a 200 answer, or, its attempts used
\* up, with the error of an answer that was not ok or of the network (0)
Answer(body) == [kind |-> "json", status |-> 200, body |-> body]
Failure(status) == [kind |-> "error", status |-> status, body |-> Undefined]
Failures == {Failure(status) : status \in {404, 429, 500, 0}}

\* what one fetch of makeRequest may bring: a 200 answer whose body is JSON
\* or is not, an answer that is not ok, or no answer (status 0)
Fetched(kind, status) == [kind |-> kind, status |-> status]
FetchOutcomes ==
  {Fetched("json", 200), Fetched("text", 200), Fetched("status", 429),
   Fetched("status", 404), Fetched("status", 500), Fetched("network", 0)}

\* the body of a 200 answer
SomeBody == Obj([reviews |-> Arr(<<>>)])

\* the wait of makeRequest that does not grow
waitTime_Fixed(attempt) == 1000

\* Math.pow(2, attempt) * 1000
waitTime(attempt) == (2 ^ attempt) * 1000

\* makeRequest is called: attempt 1 is about to fetch
makeRequest_call ==
  /\ http.pc \in {"idle", "returned", "thrown"}
  /\ http' = [NoRequest EXCEPT !.pc = "fetch", !.attempt = 1]
  /\ UNCHANGED <<workerVars, usageVars, api>>

\* one turn of the loop: fetch, then return the body, or sleep before the
\* next attempt, or leave the loop and throw lastError.  A 429 before the
\* last attempt sleeps without setting lastError; every other failure is
\* thrown into the catch, which sets it
makeRequest_fetch ==
  /\ http.pc = "fetch"
  /\ http.attempt <= maxRetries
  /\ \E outcome \in FetchOutcomes :
       LET loc == [http EXCEPT !.fetched = Append(@, outcome)]
           sleeps == [loc EXCEPT !.pc = "sleep",
                                 !.slept = Append(@, waitTime(loc.attempt))]
           error == Failure(outcome.status)
       IN http' =
            IF outcome.kind = "json"
              THEN [loc EXCEPT !.pc = "returned", !.out = <<Answer(SomeBody)>>]
            ELSE IF outcome.status = 429 /\ loc.attempt < maxRetries
              THEN sleeps
            ELSE IF loc.attempt < maxRetries
              THEN [sleeps EXCEPT !.lastError = <<error>>]
            ELSE [loc EXCEPT !.pc = "thrown", !.attempt = @ + 1,
                             !.lastError = <<error>>, !.out = <<error>>]
  /\ UNCHANGED <<workerVars, usageVars, api>>

\* the sleep is over: continue with the next attempt
makeRequest_continue ==
  /\ http.pc = "sleep"
  /\ http' = [http EXCEPT !.pc = "fetch", !.attempt = @ + 1]
  /\ UNCHANGED <<workerVars, usageVars, api>>

\* {reviews: [], averageRating: 0, totalReviews: 0}
EmptyReviews ==
  Obj([reviews |-> Arr(<<>>), averageRating |-> Whole(0), totalReviews |-> Whole(0)])

\* getProductReviews that catches the 404 only
getProductReviews_Rethrows(outcome) ==
  IF outcome.kind = "error"
    THEN Raises
  ELSE IF ~CanRead(outcome.body) THEN Returns(EmptyReviews)
  ELSE LET validationResult == reviewsResponseSchema(outcome.body)
       IN IF validationResult.success THEN Returns(validationResult.data)
          ELSE Returns(EmptyReviews)

\* getProductReviews, from the outcome of makeRequest on: all of it is inside
\* one try, whose catch returns the empty response for the 404 and for every
\* other error, a TypeError on a null body included
getProductReviews(outcome) ==
  IF outcome.kind = "error"
    THEN IF outcome.status = 404 THEN Returns(EmptyReviews) ELSE Returns(EmptyReviews)
  ELSE IF ~CanRead(outcome.body) THEN Returns(EmptyReviews)
  ELSE LET validationResult == reviewsResponseSchema(outcome.body)
       IN IF validationResult.success THEN Returns(validationResult.data)
          ELSE Returns(EmptyReviews)

(***************************************************************************)
(* DataProcessor on values of any type: the identifier of a product comes  *)
(* from a response or a request body, and TypeScript's types are not       *)
(* checked when the program runs.                                          *)
(***************************************************************************)
\* B00000000A with the character at position i replaced by ch
AsinWith(i, ch) == [AsinA EXCEPT ![i] = ch]

\* what a caller may pass as an identifier: nothing, values that are no
\* strings, blank strings, identifiers as typed, too short, too long, and
\* identifiers with one character that may not stand at its position
AsinInputs ==
  {Undefined, Null, Whole(0), Whole(5), Arr(<<>>), Str(<<>>), Str(<<" ">>)}
    \cup {Str(s) : s \in {AsinA, AsinARaw, AsinC, AsinBad, Tail(AsinA),
                          AsinA \o <<"0">>, <<"B">> \o AsinA, toUpperCase(AsinARaw)}}
    \cup {Str(AsinWith(i, ch)) : i \in 1..AsinLength, ch \in {"b", "x", "X", "1", " ", "-"}}

\* the product data processProduct may be given
ProcessorInputs ==
  {MakeObj(r) : r \in [asin : AsinInputs, title : {Undefined, Null, Str(<<"t", " ", " ", "v">>)}]}

\* isValidASIN that tests the string as it was given
isValidASINOf_AsGiven(asin) ==
  IF ~Truthy(asin) \/ asin.t # "str" THEN FALSE ELSE AsinPattern(asin.v)

\* DataProcessor.isValidASIN on a value of any type
isValidASINOf(asin) ==
  IF ~Truthy(asin) \/ asin.t # "str"
    THEN FALSE
    ELSE LET cleaned == toUpperCase(trim(asin.v))
         IN AsinPattern(cleaned)

\* DataProcessor.validateASIN on a value of any type: the cleaned identifier,
\* or one of its two errors
validateASINOf(asin) ==
  IF ~Truthy(asin) \/ asin.t # "str"
    THEN Throws(ErrAsinNotString)
    ELSE LET cleaned == toUpperCase(trim(asin.v))
         IN IF ~AsinPattern(cleaned) THEN Throws(ErrInvalidAsin) ELSE Returns(Str(cleaned))

\* text.trim() of normalizeText on a value that may be no string
normalizeTextOf(text) ==
  CASE text.t = "undefined" -> Throws(ErrUndefinedData)
    [] text.t = "null" -> Throws(ErrNullData)
    [] OTHER -> Returns(Str(normalizeText(text.v)))

\* DataProcessor.processProduct, for the fields asin and title: the fields of
\* the result are computed in order, the identifier first
processProductOf(data) ==
  LET asin == validateASINOf(Prop(data, "asin"))
      title == normalizeTextOf(Prop(data, "title"))
  IN IF asin.raised THEN asin
     ELSE IF title.raised THEN title
     ELSE Returns(Obj([asin |-> asin.value, title |-> title.value]))

\* s.includes(sub)
includes(s, sub) ==
  \E i \in 1..(Len(s) - Len(sub) + 1) : SubSeq(s, i, i + Len(sub) - 1) = sub

\* the characters \w and \d of a regular expression match
Letters ==
  {"a", "b", "c", "d", "e", "f", "g", "h", "i", "j", "k", "l", "m", "n", "o", "p",
   "q", "r", "s", "t", "u", "v", "w", "x", "y", "z", "A", "B", "C", "D", "E", "F",
   "G", "H", "I", "J", "K", "L", "M", "N", "O", "P", "Q", "R", "S", "T", "U", "V",
   "W", "X", "Y", "Z"}
DigitSet == {DigitChars[i] : i \in DOMAIN DigitChars}
WordChars == Letters \cup DigitSet \cup {"_"}

\* the end of the longest run of characters of S that starts at position i
\* of s: i - 1 if there is none
RECURSIVE RunEnd(_, _, _)
RunEnd(s, i, S) == IF i <= Len(s) /\ s[i] \in S THEN RunEnd(s, i + 1, S) ELSE i - 1

\* a character of S, and one or more of them (S+)
One(S) == [chars |-> S, many |-> FALSE]
Many(S) == [chars |-> S, many |-> TRUE]

\* on\s+ and (\w+\s+\d+,\s+\d+), item by item; no item can match a
\* character the next one could, so the longest run is the only match
DateLead == <<One({"o"}), One({"n"}), Many(WhiteSpace)>>
DateGroup ==
  <<Many(WordChars), Many(WhiteSpace), Many(DigitSet), One({","}), Many(WhiteSpace),
    Many(DigitSet)>>

\* the end of what item matches at position i of s: i - 1 if it does not
ItemEnd(s, i, item) ==
  IF item.many THEN RunEnd(s, i, item.chars)
  ELSE IF i <= Len(s) /\ s[i] \in item.chars THEN i ELSE i - 1

\* the end of what the items match at position i of s, one after the
\* other: -1 if one of them does not match
RECURSIVE MatchEnd(_, _, _)
MatchEnd(s, i, items) ==
  IF items = <<>> THEN i - 1
  ELSE IF ItemEnd(s, i, Head(items)) < i THEN 0 - 1
  ELSE MatchEnd(s, ItemEnd(s, i, Head(items)) + 1, Tail(items))

\* /on\s+(\w+\s+\d+,\s+\d+)/ matched at position i of s: whether it
\* matches, and its group
DateMatchAt(s, i) ==
  IF MatchEnd(s, i, DateLead \o DateGroup) < i
    THEN [ok |-> FALSE, group |-> <<>>]
    ELSE [ok |-> TRUE,
          group |-> SubSeq(s, MatchEnd(s, i, DateLead) + 1, MatchEnd(s, i, DateLead \o DateGroup))]

\* dateString.match(/on\s+(\w+\s+\d+,\s+\d+)/): the group of the leftmost
\* match, or <<>> for no match
DateMatch(s) ==
  LET starts == {i \in 1..Len(s) : DateMatchAt(s, i).ok}
  IN IF starts = {} THEN <<>>
     ELSE DateMatchAt(s, CHOOSE i \in starts : \A k \in starts : i <= k).group

\* the date strings of the reviews: "2023-10-22", "October 22, 2023",
\* "Reviewed on October 22, 2023", "Reviewed on never", "soon"
DateIso == <<"2", "0", "2", "3", "-", "1", "0", "-", "2", "2">>
DateLong == <<"O", "c", "t", "o", "b", "e", "r", " ", "2", "2", ",", " ", "2", "0", "2", "3">>
DateReviewed == <<"R", "e", "v", "i", "e", "w", "e", "d", " ", "o", "n", " ", "O", "c", "t", "o", "b", "e", "r", " ", "2", "2", ",", " ", "2", "0", "2", "3">>
DateNever == <<"R", "e", "v", "i", "e", "w", "e", "d", " ", "o", "n", " ", "n", "e", "v", "e", "r">>
DateSoon == <<"s", "o", "o", "n">>

\* new Date(s): the day, or the invalid date whose getTime() is NaN
NewDate(s) ==
  IF s \in {DateIso, DateLong} THEN [t |-> "date", v |-> 20231022] ELSE NaN

\* DataProcessor.parseDate
parseDate(dateString) ==
  IF ~Truthy(dateString) \/ dateString.t # "str" THEN Undefined
  ELSE LET viaMatch ==
             IF includes(dateString.v, <<"R", "e", "v", "i", "e", "w", "e", "d">>)
                  \/ includes(dateString.v, <<"o", "n", " ">>)
               THEN LET dateMatch == DateMatch(dateString.v)
                    IN IF dateMatch # <<>> THEN NewDate(dateMatch) ELSE NaN
               ELSE NaN
       IN IF viaMatch # NaN THEN viaMatch
          ELSE IF NewDate(dateString.v) # NaN THEN NewDate(dateString.v)
          ELSE Undefined

\* DataProcessor.validateRating; a comparison with undefined is false
validateRatingOf(rating) ==
  IF rating.t = "num" /\ (rating.v < 100 \/ rating.v > 500)
    THEN Throws(ErrInvalidRating)
    ELSE Returns(rating)

\* the filter of processReviews that leaves the text untested
reviewFilter_RatingOnly(review) ==
  LET rating == Prop(review, "rating")
  IN ~(~Truthy(rating) \/ rating.v < 100 \/ rating.v > 500)

\* the first filter of processReviews, for a text that is a string or
\* absent and a rating that is a number, NaN or absent
reviewFilter(review) ==
  LET text == Prop(review, "text")
      rating == Prop(review, "rating")
  IN IF ~Truthy(text) \/ trim(text.v) = <<>> THEN FALSE
     ELSE IF ~Truthy(rating) \/ rating.v < 100 \/ rating.v > 500 THEN FALSE
     ELSE TRUE

\* the map of processReviews for one review: the entity, or null when a
\* step of the conversion throws; nanoid() gives an id not given before
processReview(review, productId, id) ==
  LET rating == validateRatingOf(Prop(review, "rating"))
      title == IF Truthy(Prop(review, "title"))
                 THEN normalizeTextOf(Prop(review, "title")) ELSE Returns(Undefined)
      text == normalizeTextOf(Prop(review, "text"))
      author == normalizeTextOf(OrElse(Prop(review, "author"), Str(<<"A">>)))
      date == IF Truthy(Prop(review, "date"))
                THEN parseDate(Prop(review, "date")) ELSE Undefined
  IN IF rating.raised \/ title.raised \/ text.raised \/ author.raised THEN Null
     ELSE Obj([id |-> Whole(id), productId |-> productId, rating |-> rating.value,
               title |-> title.value, text |-> text.value, author |-> author.value,
               date |-> date,
               verified |-> OrElse(Prop(review, "verified"), [t |-> "bool", v |-> FALSE]),
               helpfulCount |-> OrElse(Prop(review, "helpfulCount"), Whole(0))])

\* the last filter of processReviews
NotNull(x) == x # Null

\* DataProcessor.processReviews
processReviewsOf(reviewsData, productId) ==
  LET kept == SelectSeq(Prop(reviewsData, "reviews").v, reviewFilter)
      mapped == [i \in DOMAIN kept |-> processReview(kept[i], productId, i)]
  IN Returns(Arr(SelectSeq(mapped, NotNull)))

\* a review as the client's schema delivers it, and the reviews that differ
\* from it in one field
OkReview ==
  [rating |-> Whole(5), text |-> Str(<<"o", " ", " ", "k">>), title |-> Undefined,
   date |-> Str(DateIso)]
GivenReviews ==
  {MakeObj([OkReview EXCEPT !.rating = x]) :
     x \in {Undefined, NaN, Whole(0), Whole(1), Num(450), Whole(6)}}
    \cup {MakeObj([OkReview EXCEPT !.text = x]) : x \in {Undefined, Str(<<>>), Str(<<" ">>)}}
    \cup {MakeObj([OkReview EXCEPT !.title = x]) : x \in {Str(<<" ", "t">>), Str(<<>>)}}
    \cup {MakeObj([OkReview EXCEPT !.date = x]) :
            x \in {Undefined, Str(<<>>), Str(DateReviewed), Str(DateNever), Str(DateSoon)}}

\* the ids of the products the reviews are processed for
ProductIds == {Str(<<"p", "1">>), Str(<<"p", "2">>)}

(***************************************************************************)
(* UsageTracker and AmazonCollector, statement by statement.  A caller is  *)
(* a job, a route or a process that holds a collector with its tracker;    *)
(* the handlers above use the collector as one caller does in one month.   *)
(***************************************************************************)
\* the options a caller may pass as limit (0: none)
Limits == {0, 2, MaxLimit}

\* the numbers of reviews a page may carry
PageSizes == 0..MaxPageSize

Min(a, b) == IF a < b THEN a ELSE b

\* the rows select().from(apiUsage).where(eq(apiUsage.month, currentMonth))
\* matches; limit(1) gives any one of them
RowsOfMonth(month) == {i \in DOMAIN apiUsage : apiUsage[i].month = month}

\* the record getCurrentUsage returns for row i
UsageOf(rows, i) ==
  [id |-> i, callsUsed |-> rows[i].callsUsed, callsLimit |-> rows[i].callsLimit]

\* the record getCurrentUsage creates
NewRecord(p) ==
  [month |-> tracker[p].currentMonth, callsUsed |-> 0,
   callsLimit |-> tracker[p].monthlyLimit]

\* the call ends: thrown or returned
Finish(p, out, returned) ==
  [NoCall EXCEPT !.op = c[p].op, !.out = out, !.returned = returned]

\* new UsageTracker(monthlyLimit) for a caller between calls
NewTracker(p, monthlyLimit) ==
  /\ c[p].pc = "idle"
  /\ tracker[p] # NewUsageTracker(monthlyLimit)
  /\ tracker' = [tracker EXCEPT ![p] = NewUsageTracker(monthlyLimit)]
  /\ UNCHANGED <<apiUsage, clock, c, workerVars, clientVars>>

\* the wall clock passes into the next month
Tick ==
  /\ clock < MaxMonths
  /\ clock' = clock + 1
  /\ UNCHANGED <<apiUsage, tracker, c, workerVars, clientVars>>

\* a caller calls collectProductByASIN ("product"), collectProductsBySearch
\* ("search"), collectReviews ("reviews"), or of the tracker canMakeCall
\* ("canMakeCall"), recordUsage(1) ("record"), getRemainingCalls or
\* getUsageStats ("stats"); usage is recorded outside the collector only
\* while the counts are under MonthlyLimit
Start(p, op, limit) ==
  /\ c[p].pc = "idle"
  /\ op = "record" => \A i \in DOMAIN apiUsage : apiUsage[i].callsUsed < MonthlyLimit
  /\ c' = [c EXCEPT ![p] =
             [NoCall EXCEPT !.pc = CASE op = "stats" -> "stat"
                                     [] op = "record" -> "track"
                                     [] OTHER -> "check",
                            !.op = op, !.limit = limit,
                            !.page = IF op \in {"stats", "record"} THEN 0 ELSE 1]]
  /\ UNCHANGED <<apiUsage, clock, tracker, workerVars, clientVars>>

\* Checked that lets the call through when the count has just reached the limit
Checked_AtLimit(p, usage) ==
  IF c[p].op = "canMakeCall"
    THEN Finish(p, IF usage.callsUsed <= usage.callsLimit THEN "true" ELSE "false", 0)
  ELSE IF usage.callsUsed <= usage.callsLimit
    THEN [c[p] EXCEPT !.pc = "request"]
    ELSE Finish(p, "quota", 0)

\* canMakeCall on the record read: checkUsageLimit throws or the call goes on
Checked(p, usage) ==
  IF c[p].op = "canMakeCall"
    THEN Finish(p, IF usage.callsUsed < usage.callsLimit THEN "true" ELSE "false", 0)
  ELSE IF usage.callsUsed < usage.callsLimit
    THEN [c[p] EXCEPT !.pc = "request"]
    ELSE Finish(p, "quota", 0)

\* checkUsageLimit -> canMakeCall -> getCurrentUsage: the select
checkUsageLimit_select(p) ==
  /\ c[p].pc = "check"
  /\ IF RowsOfMonth(tracker[p].currentMonth) = {}
       THEN c' = [c EXCEPT ![p].pc = "check_insert"]
       ELSE \E i \in RowsOfMonth(tracker[p].currentMonth) :
              c' = [c EXCEPT ![p] = Checked(p, UsageOf(apiUsage, i))]
  /\ UNCHANGED <<apiUsage, clock, tracker, workerVars, clientVars>>

\* getCurrentUsage found no record: the insert
checkUsageLimit_insert(p) ==
  /\ c[p].pc = "check_insert"
  /\ apiUsage' = Append(apiUsage, NewRecord(p))
  /\ c' = [c EXCEPT ![p] = Checked(p, UsageOf(apiUsage', Len(apiUsage')))]
  /\ UNCHANGED <<clock, tracker, workerVars, clientVars>>

\* a review as the endpoint delivers it
GoodReview == MakeObj([rating |-> Whole(5), text |-> Str(<<"o", "k">>)])

\* how the request for a page of reviews may end: the endpoint answers 404 or
\* 500, or with a page of reviews
PageOutcomes ==
  {Failure(404), Failure(500)}
    \cup {Answer(MakeObj([reviews |-> Arr([i \in 1..n |-> GoodReview])])) : n \in PageSizes}

\* the client call: getProductByASIN gives a product (1) or null (0),
\* searchProducts a list, and both may throw; getProductReviews gives what
\* it makes of the outcome of its request
client_request(p) ==
  /\ c[p].pc = "request"
  /\ \/ /\ c[p].op \in {"product", "search"}
        /\ c' = [c EXCEPT ![p] = Finish(p, "error", 0)]
     \/ /\ c[p].op \in {"product", "search"}
        /\ \E n \in {0, 1} : c' = [c EXCEPT ![p].pc = "track", ![p].got = n]
     \/ /\ c[p].op = "reviews"
        /\ \E outcome \in PageOutcomes :
             LET response == getProductReviews(outcome)
             IN c' = [c EXCEPT ![p] =
                        IF response.raised
                          THEN [Finish(p, "error", 0) EXCEPT !.status = outcome.status]
                          ELSE [c[p] EXCEPT !.pc = "track",
                                            !.got = Len(response.value.v.reviews.v),
                                            !.status = outcome.status,
                                            !.resp = <<response.value>>]]
  /\ UNCHANGED <<apiUsage, clock, tracker, workerVars, clientVars>>

\* trackUsage(1) -> recordUsage -> getCurrentUsage: the select
recordUsage_select(p) ==
  /\ c[p].pc = "track"
  /\ IF RowsOfMonth(tracker[p].currentMonth) = {}
       THEN c' = [c EXCEPT ![p].pc = "track_insert"]
       ELSE \E i \in RowsOfMonth(tracker[p].currentMonth) :
              c' = [c EXCEPT ![p].pc = "update", ![p].usage = <<UsageOf(apiUsage, i)>>]
  /\ UNCHANGED <<apiUsage, clock, tracker, workerVars, clientVars>>

\* getCurrentUsage found no record: the insert
recordUsage_insert(p) ==
  /\ c[p].pc = "track_insert"
  /\ apiUsage' = Append(apiUsage, NewRecord(p))
  /\ c' = [c EXCEPT ![p].pc = "update",
                    ![p].usage = <<UsageOf(apiUsage', Len(apiUsage'))>>]
  /\ UNCHANGED <<clock, tracker, workerVars, clientVars>>

\* AfterCall without the cap on the pages of collectReviews
AfterCall_NoPageCap(p) ==
  LET loc == c[p]
      all == loc.all + loc.got
      more == [loc EXCEPT !.pc = "check", !.usage = <<>>, !.all = all, !.page = @ + 1]
      done == Finish(p, "ok", IF loc.limit # 0 THEN Min(all, loc.limit) ELSE all)
  IN CASE loc.op = "product" -> Finish(p, IF loc.got = 0 THEN "null" ELSE "ok", loc.got)
       [] loc.op = "record" -> Finish(p, "ok", 0)
       [] loc.op = "search" -> done
       [] loc.page = 1 -> IF loc.limit # 0 /\ loc.got < loc.limit THEN more ELSE done
       [] OTHER -> IF loc.got # 0 /\ all < loc.limit THEN more ELSE done

\* what the collector does once the usage of a call is recorded: return, or
\* go on to the next page of collectReviews
AfterCall(p) ==
  LET loc == c[p]
      all == loc.all + loc.got
      more == [loc EXCEPT !.pc = "check", !.usage = <<>>, !.all = all, !.page = @ + 1]
      done == Finish(p, "ok", IF loc.limit # 0 THEN Min(all, loc.limit) ELSE all)
  IN CASE loc.op = "product" -> Finish(p, IF loc.got = 0 THEN "null" ELSE "ok", loc.got)
       [] loc.op = "record" -> Finish(p, "ok", 0)
       [] loc.op = "search" -> done
       [] loc.page = 1 -> IF loc.limit # 0 /\ loc.got < loc.limit THEN more ELSE done
       [] OTHER -> IF loc.got # 0 /\ all < loc.limit /\ loc.page + 1 <= MaxPages
                     THEN more ELSE done

\* recordUsage: the update, callsUsed of the record read plus calls
recordUsage_update(p) ==
  /\ c[p].pc = "update"
  /\ LET usage == c[p].usage[1]
     IN apiUsage' = [apiUsage EXCEPT ![usage.id].callsUsed = usage.callsUsed + 1]
  /\ c' = [c EXCEPT ![p] = AfterCall(p)]
  /\ UNCHANGED <<clock, tracker, workerVars, clientVars>>

\* getRemainingCalls, getUsageStats -> getCurrentUsage: the select
getUsageStats_select(p) ==
  /\ c[p].pc = "stat"
  /\ IF RowsOfMonth(tracker[p].currentMonth) = {}
       THEN c' = [c EXCEPT ![p].pc = "stat_insert"]
       ELSE \E i \in RowsOfMonth(tracker[p].currentMonth) :
              c' = [c EXCEPT ![p] = Finish(p, "stats", apiUsage[i].callsUsed)]
  /\ UNCHANGED <<apiUsage, clock, tracker, workerVars, clientVars>>

\* getCurrentUsage found no record: the insert
getUsageStats_insert(p) ==
  /\ c[p].pc = "stat_insert"
  /\ apiUsage' = Append(apiUsage, NewRecord(p))
  /\ c' = [c EXCEPT ![p] = Finish(p, "stats", 0)]
  /\ UNCHANGED <<clock, tracker, workerVars, clientVars>>

\* the statements of the tracker in a call under way
TrackerStep(p) ==
  \/ checkUsageLimit_select(p) \/ checkUsageLimit_insert(p)
  \/ recordUsage_select(p) \/ recordUsage_insert(p) \/ recordUsage_update(p)
  \/ getUsageStats_select(p) \/ getUsageStats_insert(p)

\* the statements of a collector call under way
CallStep(p) == TrackerStep(p) \/ client_request(p)

(***************************************************************************)
(* The system.                                                             *)
(***************************************************************************)
Produce(J) ==
  \E j \in J :
    \/ \E type \in {"product", "search", "review"}, asin \in JobAsins :
         triggerManualCollection_add(j, type, asin)
    \/ \E asin \in JobAsins : scheduleProductUpdates_add(j, asin)
    \/ ProducerInsert(j)

Operate(J) ==
  \E j \in J : Suspend(j) \/ Resume(j) \/ cancelScheduledJob(j) \/ Promote(j)

Protocol(J) ==
  \E j \in J :
    \/ Dequeue(j) \/ SelectJob(j) \/ UpdateRunning(j) \/ InsertRunning(j)
    \/ Recheck(j) \/ ReupdateRunning(j) \/ Complete(j) \/ Fail(j)

HandleProduct(J) ==
  \E j \in J :
    \/ P_Existing(j) \/ P_Fetch(j) \/ P_Lookup(j) \/ P_Upsert(j) \/ P_Price(j)
    \/ P_Reviews(j) \/ P_DeleteReviews(j) \/ P_InsertReview(j)

HandleSearch(J, n) ==
  \E j \in J :
    \/ S_Search(j, n) \/ S_Detail(j) \/ S_Lookup(j) \/ S_Upsert(j) \/ S_Price(j)
    \/ S_Reviews(j) \/ S_DeleteReviews(j) \/ S_InsertReview(j)

HandleOther(J) ==
  \E j \in J :
    \/ R_Lookup(j) \/ R_Fetch(j) \/ R_Insert(j) \/ R_Update(j)
    \/ U_Lookup(j) \/ U_Fetch(j) \/ U_Price(j)

\* a response is validated as a product
Call_productDataSchema ==
  /\ api = NoApi
  /\ \E x \in RawProducts \cup {Null, Arr(<<>>)} :
       api' = [fn |-> "productDataSchema", arg |-> x, out |-> productDataSchema(x)]
  /\ UNCHANGED <<workerVars, usageVars, http>>

\* the search endpoint has answered with a body
Call_searchProducts ==
  /\ api = NoApi
  /\ \E response \in SearchBodies :
       api' = [fn |-> "searchProducts", arg |-> response,
               out |-> searchProducts(response, Query)]
  /\ UNCHANGED <<workerVars, usageVars, http>>

\* a request to the reviews endpoint has ended
Call_getProductReviews ==
  /\ api = NoApi
  /\ \E outcome \in Failures \cup {Answer(body) : body \in ReviewBodies} :
       api' = [fn |-> "getProductReviews", arg |-> outcome,
               out |-> getProductReviews(outcome)]
  /\ UNCHANGED <<workerVars, usageVars, http>>

\* an identifier is tested
Call_isValidASIN ==
  /\ api = NoApi
  /\ \E asin \in AsinInputs :
       api' = [fn |-> "isValidASIN", arg |-> asin,
               out |-> Returns([t |-> "bool", v |-> isValidASINOf(asin)])]
  /\ UNCHANGED <<workerVars, usageVars, http>>

\* product data is converted to a row
Call_processProduct ==
  /\ api = NoApi
  /\ \E data \in ProcessorInputs :
       api' = [fn |-> "processProduct", arg |-> data, out |-> processProductOf(data)]
  /\ UNCHANGED <<workerVars, usageVars, http>>

\* the reviews of a response are converted to rows
Call_processReviews ==
  /\ api = NoApi
  /\ \E list \in SeqsUpTo(GivenReviews, MaxGivenReviews), productId \in ProductIds :
       LET reviewsData == Obj([reviews |-> Arr(list), averageRating |-> Whole(4),
                               totalReviews |-> Whole(Len(list))])
       IN api' = [fn |-> "processReviews", arg |-> <<reviewsData, productId>>,
                  out |-> processReviewsOf(reviewsData, productId)]
  /\ UNCHANGED <<workerVars, usageVars, http>>

\* every operation of the service, on the job ids 1..MaxJobs
Next ==
  \/ Produce(1..MaxJobs) \/ Operate(1..MaxJobs) \/ Protocol(1..MaxJobs)
  \/ HandleProduct(1..MaxJobs) \/ HandleSearch(1..MaxJobs, MaxResults) \/ HandleOther(1..MaxJobs)

Spec == Init /\ [][Next]_vars

\* every operation of the service, and jobs of any type on the queue
NextAnyType ==
  \/ Next
  \/ \E j \in 1..MaxJobs, asin \in JobAsins : addUntypedJob(j, asin)

SpecAnyType == Init /\ [][NextAnyType]_vars

\* collections of every type side by side, on the job ids 1..MaxPairJobs, each
\* delivered once and left alone by the operator
NextPair ==
  \/ Produce(1..MaxPairJobs) \/ Protocol(1..MaxPairJobs)
  \/ HandleProduct(1..MaxPairJobs) \/ HandleSearch(1..MaxPairJobs, MaxPairResults)
  \/ HandleOther(1..MaxPairJobs)

SpecPair == Init /\ [][NextPair]_vars

\* one caller and its collector: every operation, every limit option
NextCollector ==
  \/ \E op \in {"product", "search", "reviews", "canMakeCall", "record", "stats"},
        limit \in Limits :
       /\ op \in {"product", "canMakeCall", "record", "stats"} => limit = 0
       /\ Start(1, op, limit)
  \/ CallStep(1)
  \/ \E monthlyLimit \in {MonthlyLimit, PagesLimit} : NewTracker(1, monthlyLimit)

SpecCollector == Init /\ [][NextCollector]_vars

\* a call under way is not abandoned: its awaited statements complete
SpecCollectorFair == SpecCollector /\ WF_vars(CallStep(1))

\* trackers side by side, each called by its owner, while the months pass
NextTrackers ==
  \/ \E p \in Callers, op \in {"canMakeCall", "record", "stats"} : Start(p, op, 0)
  \/ \E p \in Callers : TrackerStep(p)
  \/ \E p \in Callers : NewTracker(p, MonthlyLimit)
  \/ Tick

SpecTrackers == Init /\ [][NextTrackers]_vars

\* two review jobs, their producer, the operators and the worker
NextOperated ==
  \/ \E j \in 1..MaxPairJobs : triggerManualCollection_add(j, "review", AsinA)
  \/ \E j \in 1..MaxPairJobs : ProducerInsert(j)
  \/ Operate(1..MaxPairJobs)
  \/ Protocol(1..MaxPairJobs)
  \/ \E j \in 1..MaxPairJobs : R_Lookup(j) \/ R_Fetch(j) \/ R_Insert(j) \/ R_Update(j)

SpecOperated == Init /\ [][NextOperated]_vars

\* a job of the worker calls collectProductByASIN; the model follows the
\* counts up to one call over MonthlyLimit
StartShared(p) ==
  /\ \A i \in DOMAIN apiUsage : apiUsage[i].callsUsed <= MonthlyLimit
  /\ Start(p, "product", 0)

\* the jobs in flight on one worker: they call the one collector of the
\* worker, whose tracker they share, each at its own pace
NextShared ==
  \/ \E p \in Callers : StartShared(p)
  \/ \E p \in Callers : checkUsageLimit_select(p) \/ checkUsageLimit_insert(p)
  \/ \E p \in Callers : client_request(p)
  \/ \E p \in Callers : recordUsage_select(p) \/ recordUsage_update(p)

SpecShared == Init /\ [][NextShared]_vars

\* two product jobs for the stored product, their producer and the worker,
\* which has both in flight
NextRecollect ==
  \/ \E j \in 1..MaxPairJobs : triggerManualCollection_add(j, "product", AsinA)
  \/ \E j \in 1..MaxPairJobs : ProducerInsert(j)
  \/ Protocol(1..MaxPairJobs)
  \/ HandleProduct(1..MaxPairJobs)

SpecRecollect == Init /\ [][NextRecollect]_vars

\* the statements of the worker: the protocol of processJob and the handlers
Worker(J) ==
  \/ Protocol(J)
  \/ HandleProduct(J) \/ HandleSearch(J, MaxResults) \/ HandleOther(J)

\* the producers, the worker, the queue's backoff, and an operator who
\* suspends and resumes jobs and cancels none
NextResumed ==
  \/ Produce(1..MaxJobs)
  \/ \E j \in 1..MaxJobs : Suspend(j) \/ Resume(j) \/ Promote(j)
  \/ Worker(1..MaxJobs)

\* the worker is running: it takes a job that waits, every statement it
\* awaits completes, and the queue delivers a delayed job again
SpecResumed ==
  /\ Init /\ [][NextResumed]_vars
  /\ WF_vars(Worker(1..MaxJobs))
  /\ WF_vars(\E j \in 1..MaxJobs : Promote(j))

\* the requests of the client, one after the other
NextRequest ==
  \/ makeRequest_call
  \/ makeRequest_fetch
  \/ makeRequest_continue

SpecRequest == Init /\ [][NextRequest]_vars

\* the functions of the client, its schemas and the processor: one call of
\* one of them, with anything it may be given
NextClient ==
  \/ Call_productDataSchema
  \/ Call_searchProducts
  \/ Call_getProductReviews
  \/ Call_isValidASIN
  \/ Call_processProduct
  \/ Call_processReviews

SpecClient == Init /\ [][NextClient]_vars


(***************************************************************************)
(* Properties.                                                             *)
(***************************************************************************)
\* the positions of processJob before the row is written as running
PreRunPcs == {"select", "update", "insert", "recheck", "reupdate"}

\* the positions of a delivery whose row was written as running
InFlight(pc) == pc \notin PreRunPcs \cup {"idle"}

HasRow(j) == j \in DOMAIN scrapeJobs

Stepped(j) == w'[j] # w[j]

\* C1: when the producer's insert of the pending row and the worker's lazy
\* insert of the running row race for one job id, neither the producer's
\* caller nor the worker receives a duplicate-key error.
C1_NoDuplicateKeyError ==
  \A j \in JobIds :
    /\ producer[j].pc # "threw"
    /\ w[j].err # ErrDuplicateJob
    /\ queue[j].failedReason # ErrDuplicateJob

\* C2: when processJob finds the job's row suspended it returns without
\* raising, dispatches no handler, calls no API, records no usage and writes
\* nothing: the job row and the product, price and review rows are unchanged.
C2_SuspendedIsNoOp ==
  [][\A j \in JobIds :
       (w[j].pc = "select" /\ Stepped(j) /\ HasRow(j) /\ scrapeJobs[j].status = "suspended")
         => /\ w'[j] = Idle
            /\ queue'[j] = [queue[j] EXCEPT !.state = "completed"]
            /\ UNCHANGED <<scrapeJobs, products, prices, reviews, callsUsed>>]_vars

\* a delivery was skipped: processJob returned on a row that is suspended and
\* was never started
C2_Witness ==
  \E j \in JobIds :
    /\ HasRow(j)
    /\ scrapeJobs[j].status = "suspended"
    /\ scrapeJobs[j].startedAt = 0
    /\ queue[j].state = "completed"
    /\ w[j] = Idle

\* C3: a delivery marked running ends only through the finalization: when the
\* handler returned the row is completed with a completion time, when
\* anything threw the row is failed with the error's message and a completion
\* time and the same error is rethrown to the queue.
C3_DeliveryIsFinalized ==
  [][\A j \in JobIds :
       (InFlight(w[j].pc) /\ w'[j].pc = "idle")
         => /\ HasRow(j)
            /\ w[j].pc \in {"complete", "fail"}
            /\ w[j].pc = "complete"
                 => /\ scrapeJobs'[j].status = "completed"
                    /\ scrapeJobs'[j].completedAt = Now(j)
                    /\ queue'[j].state = "completed"
            /\ w[j].pc = "fail"
                 => /\ scrapeJobs'[j].status = "failed"
                    /\ scrapeJobs'[j].error = w[j].err
                    /\ scrapeJobs'[j].completedAt = Now(j)
                    /\ queue'[j].failedReason = w[j].err
                    /\ queue'[j].attemptsMade = queue[j].attemptsMade + 1
                    /\ queue'[j].state \in {"delayed", "failed"}]_vars

\* a delivery threw and was finalized: the row is failed with the message the
\* queue was given
C3_Witness ==
  \E j \in JobIds :
    /\ HasRow(j)
    /\ w[j] = Idle
    /\ queue[j].state = "delayed"
    /\ scrapeJobs[j].status = "failed"
    /\ scrapeJobs[j].error = ErrTransient
    /\ queue[j].failedReason = ErrTransient
    /\ scrapeJobs[j].completedAt = queue[j].attemptsMade

\* C4: completed and failed are terminal: no later operation changes the
\* status of a row that is completed or failed.
C4_TerminalStatus ==
  [][\A j \in JobIds :
       (HasRow(j) /\ scrapeJobs[j].status \in {"completed", "failed"})
         => scrapeJobs'[j].status = scrapeJobs[j].status]_vars

\* C5: when the row is suspended before the worker writes running for the
\* delivery, the worker dispatches no handler and the row stays suspended.
C5_SuspendBeforeRunning ==
  [][\A j \in JobIds :
       (w[j].pc \in PreRunPcs /\ Stepped(j) /\ HasRow(j) /\ scrapeJobs[j].status = "suspended")
         => /\ scrapeJobs'[j].status = "suspended"
            /\ ~InFlight(w'[j].pc)]_vars

\* C6: a suspend applied after the worker marked the row running does not
\* interrupt the delivery: every step of it goes on to the handler's end, and
\* the finalization leaves the row completed or failed, not suspended.
C6_SuspendInFlight ==
  [][\A j \in JobIds :
       (InFlight(w[j].pc) /\ Stepped(j) /\ HasRow(j) /\ scrapeJobs[j].status = "suspended")
         => IF w'[j].pc = "idle"
              THEN /\ w[j].pc \in {"complete", "fail"}
                   /\ scrapeJobs'[j].status = (IF w[j].pc = "complete" THEN "completed" ELSE "failed")
              ELSE InFlight(w'[j].pc)]_vars

\* the handler returned while the row, suspended in flight, still reads
\* suspended
C6_Witness ==
  \E j \in JobIds :
    /\ HasRow(j)
    /\ w[j].pc = "complete"
    /\ scrapeJobs[j].status = "suspended"
    /\ scrapeJobs[j].startedAt = Now(j)

\* C7: in a product job whose fetch returns null, the job fails with the
\* fetch error when the handler's select found no row for the requested
\* identifier, and returns (the job row is completed) when it found one; in
\* both cases no product, price or review row is written.
C7_NullFetch ==
  [][\A j \in JobIds :
       (queue[j].data # <<>> /\ Data(j).type = "product" /\ Stepped(j))
         => /\ w[j].pc = "existing"
                 => w'[j].existed = (\E r \in products : r.asin = Data(j).asin)
            /\ (w[j].pc = "fetch" /\ w'[j].pc = "complete")
                 => w[j].existed /\ UNCHANGED <<products, prices, reviews>>
            /\ (w[j].pc = "fetch" /\ w'[j].pc = "fail" /\ w'[j].err = ErrFetchFailed)
                 => ~w[j].existed /\ UNCHANGED <<products, prices, reviews>>
            /\ w[j].pc = "complete" => scrapeJobs'[j].status = "completed"
            /\ w[j].pc = "fail"
                 => scrapeJobs'[j].status = "failed" /\ scrapeJobs'[j].error = w[j].err]_vars

\* the first delivery of a product job for the stored identifier got null and
\* was completed, the stored product, its snapshot and its review as they were
C7_Witness ==
  \E j \in JobIds :
    /\ HasRow(j)
    /\ Data(j).type = "product"
    /\ queue[j].state = "completed"
    /\ queue[j].attemptsMade = 0
    /\ scrapeJobs[j].status = "completed"
    /\ scrapeJobs[j].startedAt = 1
    /\ callsUsed = 1
    /\ products = {SeedProduct}
    /\ prices = <<SeedPrice>>
    /\ reviews = <<SeedReview>>

\* C8: in every reachable state, concurrent collections of one identifier
\* included, at most one product row holds a given normalized identifier.
C8_UniqueNormalizedAsin ==
  \A r1, r2 \in products :
    validateASIN(r1.asin) = validateASIN(r2.asin) => r1 = r2

\* a product job and a search job collected one identifier side by side into
\* an empty table; the product job's insert met the row of the search job
C8_Witness ==
  \E j, k \in JobIds :
    /\ queue[j].data # <<>> /\ Data(j).type = "product" /\ Data(j).asin = AsinA
    /\ queue[k].data # <<>> /\ Data(k).type = "search"
    /\ w[j].pc = "fail"
    /\ w[j].err = ErrDuplicateProduct
    /\ \E r \in products : r.asin = AsinA /\ r.id[1] = k

\* C9: a product job for an identifier whose normalized form is stored, the
\* response being for that identifier, updates the stored row in place: its
\* upsert inserts no row and does not fail.
C9_UpdateInPlace ==
  [][\A j \in JobIds :
       (/\ w[j].pc = "upsert" /\ Stepped(j)
        /\ Data(j).type = "product"
        /\ w[j].processed[1].asin = validateASIN(Data(j).asin)
        /\ \E r \in products : r.asin = validateASIN(Data(j).asin))
         => /\ w'[j].pc # "fail"
            /\ {r.id : r \in products'} = {r.id : r \in products}]_vars

\* C10: price snapshots are append-only: a step leaves every stored snapshot
\* as it is and adds at most one, and it adds one only as the price step of
\* the product being handled, for that product.
C10_PricesAppendOnly ==
  [][/\ Len(prices') >= Len(prices)
     /\ SubSeq(prices', 1, Len(prices)) = prices
     /\ prices' # prices
          => \E j \in JobIds :
               /\ w[j].pc \in {"price", "u_price"}
               /\ w'[j].pc \notin {"price", "u_price"}
               /\ w'[j].productId \in {<<>>, w[j].productId}
               /\ prices' = Append(prices, processPrice(w[j].item[1], w[j].productId[1]))]_vars

\* a price update and a collection have each appended a snapshot of the
\* stored product after the one it had
C10_Witness ==
  /\ Len(prices) = 3
  /\ prices[1] = SeedPrice
  /\ \A i \in 1..3 : prices[i].productId = SeedProduct.id
  /\ \E j, k \in JobIds :
       /\ queue[j].data # <<>> /\ Data(j).type = "price_update" /\ w[j].pc = "complete"
       /\ queue[k].data # <<>> /\ Data(k).type \in {"product", "search"} /\ w[k].productId = <<SeedProduct.id>>

\* the rows of table reviews that belong to one product
ReviewsOf(rows, id) == SelectSeq(rows, LAMBDA r : r.productId = id)

\* C11: when a job has re-collected the reviews of a product and stored them,
\* the reviews stored for the product are exactly the valid reviews of that
\* collection, none of an earlier collection among them; stated where the
\* review job has stored the last review of its collection.
C11_ReviewsReplaced ==
  [][\A j \in JobIds :
       (w[j].pc = "r_insert" /\ w'[j].pc = "r_update")
         => ReviewsOf(reviews', w[j].productId[1])
              = processReviews(w[j].item[1].reviews, w[j].productId[1])]_vars

\* caller p took a step of its call
Called(p) == c'[p] # c[p]

\* C12: every collector operation is gated by the usage limiter: with the
\* month's count at or above the limit at the check the operation throws the
\* quota error, makes no request and leaves the count as it is; a request is
\* made only after a check that found the count under the limit, and it
\* changes no count; collectProductByASIN then records one unit, the count
\* rising by exactly one, and returns the product or the null signal.
C12_CollectorGated ==
  [][\A p \in Callers :
       LET loc == c[p]
           rows == RowsOfMonth(tracker[p].currentMonth)
       IN (Called(p) /\ loc.op \in {"product", "search", "reviews"} /\ loc.pc # "idle")
            => /\ (/\ loc.pc = "check" /\ rows # {}
                   /\ \A i \in rows : apiUsage[i].callsUsed >= apiUsage[i].callsLimit)
                    => /\ c'[p].pc = "idle" /\ c'[p].out = "quota"
                       /\ apiUsage' = apiUsage
               /\ (loc.pc # "request" /\ c'[p].pc = "request")
                    => /\ loc.pc \in {"check", "check_insert"}
                       /\ \E i \in DOMAIN apiUsage' :
                            /\ apiUsage'[i].month = tracker[p].currentMonth
                            /\ apiUsage'[i].callsUsed < apiUsage'[i].callsLimit
               /\ loc.pc = "request"
                    => /\ apiUsage' = apiUsage
                       /\ c'[p].pc \in {"track", "idle"}
                       /\ c'[p].pc = "idle" => c'[p].out = "error"
               /\ (loc.pc = "update" /\ loc.op = "product")
                    => /\ loc.page = 1
                       /\ c'[p].pc = "idle"
                       /\ c'[p].out = (IF loc.got = 0 THEN "null" ELSE "ok")
                       /\ \A i \in DOMAIN apiUsage :
                            apiUsage'[i].callsUsed
                              = apiUsage[i].callsUsed + (IF i = loc.usage[1].id THEN 1 ELSE 0)]_vars

\* collectProductByASIN has returned the null signal and the month's count,
\* 0 before, is 1
C12_Witness ==
  /\ c[1].op = "product" /\ c[1].pc = "idle" /\ c[1].out = "null"
  /\ apiUsage = <<[month |-> 1, callsUsed |-> 1, callsLimit |-> MonthlyLimit]>>

\* the positions of a handler at a call of the collector
CollectorCallPcs == {"fetch", "revfetch", "search", "detail", "r_fetch", "u_fetch"}

\* C13: whenever the usage limiter refuses a call of a job, in any handler
\* and for any call of the job, the job is failed with the quota error's
\* message.
C13_QuotaFailsJob ==
  [][\A j \in JobIds :
       (w[j].pc \in CollectorCallPcs /\ Stepped(j) /\ ~canMakeCall)
         => w'[j] = ToFail(ErrQuota)]_vars

\* C14: recordUsage never loses an increment: each recordUsage(1), whatever
\* other callers do meanwhile, leaves the stored count of its record one
\* above what it was, so that k calls raise it by at least k.
C14_NoLostIncrement ==
  [][\A p \in Callers :
       (c[p].pc = "update" /\ Called(p))
         => LET id == c[p].usage[1].id
            IN apiUsage'[id].callsUsed >= apiUsage[id].callsUsed + 1]_vars

\* C15: in every reachable state there is at most one usage record per month
\* key, also when several callers touch a month for the first time at once.
C15_OneRecordPerMonth ==
  \A i, k \in DOMAIN apiUsage : apiUsage[i].month = apiUsage[k].month => i = k

\* C16: every tracker operation acts on the record of the month that is
\* current when it is called: the month whose record a call reads, creates
\* and increments is the month of the clock at the call.
C16_MonthAtCallTime ==
  [][\A p \in Callers :
       (c[p].pc = "idle" /\ c'[p].pc # "idle") => tracker[p].currentMonth = clock]_vars

\* C17: collectReviews ends after 1 to 5 pages, asked for in order from page
\* 1: every request follows a usage check that passed and is followed by one
\* recordUsage(1) before anything else; with a limit at most limit reviews are
\* returned, without one only page 1 is asked for; and the call, once
\* started, does end.
C17_PagesBounded ==
  /\ [][\A p \in Callers :
          LET loc == c[p]
          IN (Called(p) /\ loc.op = "reviews" /\ loc.pc # "idle")
               => /\ loc.page \in 1..MaxPages
                  /\ c'[p].pc # "idle" => c'[p].page \in {loc.page, loc.page + 1}
                  /\ c'[p].page = loc.page + 1 => loc.pc = "update" /\ c'[p].pc = "check"
                  /\ (loc.pc # "request" /\ c'[p].pc = "request")
                       => loc.pc \in {"check", "check_insert"}
                  /\ loc.pc = "request" => c'[p].pc = "track"
                  /\ loc.pc \in {"track", "track_insert"}
                       => c'[p].pc \in {"track_insert", "update"}
                  /\ loc.pc = "update"
                       => \E i \in DOMAIN apiUsage :
                            /\ apiUsage'[i].callsUsed = apiUsage[i].callsUsed + 1
                            /\ \A k \in DOMAIN apiUsage \ {i} : apiUsage'[k] = apiUsage[k]
                  /\ (c'[p].pc = "idle" /\ c'[p].out = "ok")
                       => /\ loc.pc = "update"
                          /\ loc.limit # 0 => c'[p].returned <= loc.limit
                          /\ loc.limit = 0 => loc.page = 1]_vars
  /\ \A p \in {1} : (c[p].op = "reviews" /\ c[p].pc # "idle") ~> (c[p].pc = "idle")

\* collectReviews with a limit is recording the usage of its fifth page
C17_Witness ==
  /\ c[1].op = "reviews" /\ c[1].pc = "update"
  /\ c[1].page = MaxPages /\ c[1].limit = MaxLimit
  /\ c[1].all + c[1].got > c[1].limit - 1

\* C18: collectReviews with a limit asks for a further page only while the
\* reviews gathered are fewer than the limit, no page fetched so far, page 1
\* included, came back empty, and fewer than 5 pages have been fetched.
C18_StopConditions ==
  [][\A p \in Callers :
       (c[p].op = "reviews" /\ c[p].pc # "idle" /\ c'[p].page = c[p].page + 1)
         => /\ c[p].limit # 0
            /\ c[p].all + c[p].got < c[p].limit
            /\ c[p].got # 0
            /\ c[p].page < MaxPages]_vars

\* the positions of the search handler inside its loop over the results
LoopPcs == {"detail", "lookup2", "upsert", "price", "revfetch", "delete", "insertReview"}

\* C19: in a search job whose search call succeeded, a failure on one result
\* neither stops the handling of the remaining results nor fails the job:
\* every result is counted as a success or as an error, the others still in
\* hand, the job fails only by the search call itself, and at the end the
\* success count plus the error count is the number of results.
C19_SearchCountsEveryResult ==
  \A j \in JobIds :
    IsSearch(j)
      => /\ w[j].pc \in LoopPcs
              => w[j].successCount + w[j].errorCount + 1 + Len(w[j].items) = w[j].total
         /\ w[j].pc = "complete" => w[j].successCount + w[j].errorCount = w[j].total
         /\ w[j].pc = "fail" => w[j].total = 0 /\ w[j].err \in {ErrQuota, ErrTransient}

\* the first of two results failed and the second was stored all the same
C19_Witness ==
  \E j \in JobIds :
    /\ IsSearch(j) /\ w[j].pc = "complete"
    /\ w[j].total = 2 /\ w[j].errorCount = 1 /\ w[j].successCount = 1
    /\ \E r \in products : r.id = <<j, Now(j), 1>>

\* the positions of a handler in the review stage of an item
ReviewPcs == {"revfetch", "delete", "insertReview"}

\* C20: in a product job, once the product row is upserted, a failure in the
\* review stage does not fail the job: every step of the stage leaves the
\* product rows and the price snapshots as they are and goes on within the
\* stage or to the handler's return, after which the job is completed.
C20_ReviewFailureNotFatal ==
  [][\A j \in JobIds :
       (IsProduct(j) /\ Stepped(j))
         => /\ w[j].pc \in ReviewPcs
                 => /\ w'[j].pc \in ReviewPcs \cup {"complete"}
                    /\ UNCHANGED <<products, prices>>
                    /\ \E r \in products : r.id = w[j].productId[1]
            /\ w[j].pc = "complete"
                 => scrapeJobs'[j].status = "completed" /\ UNCHANGED <<products, prices>>]_vars

\* a product job has stored the product row and the price snapshot of this
\* execution and stands at a review fetch the limiter will refuse
C20_Witness ==
  \E j \in JobIds :
    /\ IsProduct(j) /\ w[j].pc = "revfetch"
    /\ ~canMakeCall
    /\ \E r \in products : r.id = <<j, Now(j), 0>>
    /\ \E i \in DOMAIN prices : prices[i].productId = <<j, Now(j), 0>>

\* the job's handler needs the parent product to be stored
NeedsProduct(j) == queue[j].data # <<>> /\ Data(j).type \in {"review", "price_update"}

\* C21: a review job or a price_update job whose identifier has no stored
\* product row fails at the handler's select with the not-found error: the
\* handler makes no call and records no usage, no product, price or review
\* row is written, and the catch block leaves the job's row failed with that
\* error.
C21_MissingProductFails ==
  [][\A j \in JobIds :
       (NeedsProduct(j) /\ Stepped(j))
         => /\ (/\ w[j].pc \in {"r_lookup", "u_lookup"}
                /\ ~\E r \in products : r.asin = Data(j).asin)
                 => /\ w'[j] = ToFail(ErrNotFound)
                    /\ UNCHANGED <<products, prices, reviews, callsUsed>>
            /\ (w[j].pc = "fail" /\ w[j].err = ErrNotFound)
                 => /\ scrapeJobs'[j].status = "failed"
                    /\ scrapeJobs'[j].error = ErrNotFound
                    /\ UNCHANGED <<products, prices, reviews, callsUsed>>]_vars

\* a review job for a product that is not stored was failed with the not-found
\* error; no call was counted and the tables are empty
C21_Witness ==
  \E j \in JobIds :
    /\ HasRow(j) /\ NeedsProduct(j) /\ Data(j).type = "review"
    /\ w[j] = Idle
    /\ scrapeJobs[j].status = "failed"
    /\ scrapeJobs[j].error = ErrNotFound
    /\ queue[j].failedReason = ErrNotFound
    /\ callsUsed = 0
    /\ products = {} /\ prices = <<>> /\ reviews = <<>>

\* C22: a price_update job for a stored product leaves the product rows and
\* the reviews as they are; once the fetch has answered, with a price, without
\* one or with the null signal, the handler goes on to return, appending one
\* snapshot exactly when the data carries a price, and the job is completed.
C22_PriceUpdateCompletes ==
  [][\A j \in JobIds :
       (/\ queue[j].data # <<>> /\ Data(j).type = "price_update"
        /\ Stepped(j) /\ w[j].pc \in {"u_fetch", "u_price"})
         => /\ UNCHANGED <<products, reviews>>
            /\ (w[j].pc = "u_fetch" /\ callsUsed' = callsUsed + 1)
                 => /\ prices' = prices
                    /\ w'[j].pc \in {"u_price", "complete"}
                    /\ w'[j].pc = "u_price" => w'[j].item[1].price # 0
            /\ w[j].pc = "u_price"
                 => /\ prices' = Append(prices, processPrice(w[j].item[1], w[j].productId[1]))
                    /\ w'[j].pc = "complete"]_vars

\* C23: a job whose type is none of product, search, review, price_update
\* runs no handler and makes no call; when its delivery throws, the job's row
\* is failed with the unknown-type error and the queue does not deliver the
\* job again.
C23_UnknownTypeFailsOnce ==
  [][\A j \in JobIds :
       (queue[j].data # <<>> /\ Data(j).type \notin JobTypes /\ Stepped(j))
         => /\ w'[j].pc \in PreRunPcs \cup {"idle", "fail"}
            /\ UNCHANGED <<products, prices, reviews, callsUsed>>
            /\ w[j].pc = "fail"
                 => /\ HasRow(j)
                    /\ scrapeJobs'[j].status = "failed"
                    /\ scrapeJobs'[j].error = ErrUnknownType
                    /\ queue'[j].state = "failed"]_vars

\* the positions of the handlers at their primary call: the product fetch of
\* a product or price_update job, the search call, the review fetch of a
\* review job
PrimaryCallPcs == {"fetch", "search", "r_fetch", "u_fetch"}

\* C24: when the primary call of a job has failed with a transient error
\* through every retry of the call path, the error reaches processJob's catch
\* block, and the job's row is failed with it.
C24_TransientFailsJob ==
  [][\A j \in JobIds :
       Stepped(j)
         => /\ (w[j].pc \in PrimaryCallPcs /\ w'[j].err = ErrTransient)
                 => w'[j].pc = "fail"
            /\ (w[j].pc = "fail" /\ w[j].err = ErrTransient)
                 => scrapeJobs'[j].status = "failed" /\ scrapeJobs'[j].error = ErrTransient]_vars

\* the amounts of the currency-formatted strings
FormattedPrices == {<<Price171, Num(17195)>>, <<Price1250, Num(125050)>>}

\* C28: product normalization preserves a price through its accepted shapes,
\* for a product that carries an identifier and a price: a number n gives
\* current = n, a currency-formatted string gives its amount, and a structured
\* price {current, original, currency} gives the same current, original and
\* currency.
C28_PricePreserved ==
  (/\ api.fn = "productDataSchema"
   /\ api.arg.t = "obj"
   /\ DOMAIN api.arg.v = {"asin", "price"}
   /\ api.out.success)
    => LET price == api.arg.v.price
           out == Prop(api.out.data, "price")
       IN /\ price.t = "num" => Prop(out, "current") = price
          /\ \A pair \in FormattedPrices : price = pair[1] => Prop(out, "current") = pair[2]
          /\ (price.t = "obj" /\ DOMAIN price.v = {"current", "original", "currency"})
               => /\ Prop(out, "current") = price.v.current
                  /\ Prop(out, "original") = price.v.original
                  /\ Prop(out, "currency") = price.v.currency

\* a normalized product: an identifier, a title, a price or none
IsProductData(x) ==
  /\ x.t = "obj"
  /\ DOMAIN x.v = {"asin", "title", "price"}
  /\ x.v.asin.t = "str" /\ trim(x.v.asin.v) # <<>>
  /\ x.v.title.t = "str"
  /\ x.v.price.t \in {"undefined", "obj"}

\* the canonical {products, totalResults, query}
IsSearchResponse(x) ==
  /\ x.t = "obj"
  /\ DOMAIN x.v = {"products", "totalResults", "query"}
  /\ x.v.products.t = "arr"
  /\ \A i \in DOMAIN x.v.products.v : IsProductData(x.v.products.v[i])
  /\ x.v.totalResults.t = "num"
  /\ x.v.query.t = "str"

\* C26: for every body the search endpoint may deliver, searchProducts returns
\* without raising a canonical {products, totalResults, query}; for null, for
\* a body that is no object and for an object with neither products nor
\* results it is {products: [], totalResults: 0, query: the query asked for}.
C26_SearchNeverRaises ==
  api.fn = "searchProducts"
    => /\ ~api.out.raised
       /\ IsSearchResponse(api.out.value)
       /\ (\/ api.arg.t \notin {"obj", "arr"}
           \/ /\ api.arg.t = "obj"
              /\ Prop(api.arg, "products") = Undefined
              /\ Prop(api.arg, "results") = Undefined)
            => api.out.value = EmptySearch(Query)

\* the endpoint answered null, and {products: [], totalResults: 0, query} came
\* back
C26_Witness ==
  /\ api.fn = "searchProducts" /\ api.arg = Null
  /\ api.out = Returns(EmptySearch(Query))

\* C27: for a search response that carries a list of items, as a bare array
\* or under products, the normalized products are exactly the items that
\* normalize one by one, in their order: an invalid item is dropped and takes
\* no valid item with it.
C27_ItemsIndependent ==
  (/\ api.fn = "searchProducts"
   /\ \/ api.arg.t = "arr"
      \/ /\ api.arg.t = "obj" /\ DOMAIN api.arg.v = {"products"}
         /\ api.arg.v.products.t = "arr")
    => LET list == IF api.arg.t = "arr" THEN api.arg.v ELSE api.arg.v.products.v
       IN /\ ~api.out.raised
          /\ api.out.value.v.products = Arr(validProducts(list))

\* a rating given as a number or as a string that parseFloat reads as one
IsNumeric(x) == x.t = "num" \/ (x.t = "str" /\ parseFloat(x.v) # NaN)

\* the number a numeric rating stands for
NumberOf(x) == IF x.t = "num" THEN x ELSE parseFloat(x.v)

\* C29: of a reviews response whose reviews all carry a rating that is a
\* number or a numeric string, every review is accepted, in order, with its
\* rating clamped into 1..5: a rating out of range rejects neither its review
\* nor the set.
C29_RatingsClamped ==
  (/\ api.fn = "getProductReviews"
   /\ api.arg.kind = "json"
   /\ api.arg.body.t = "obj"
   /\ DOMAIN api.arg.body.v = {"reviews"}
   /\ api.arg.body.v.reviews.t = "arr"
   /\ \A i \in DOMAIN api.arg.body.v.reviews.v :
        LET r == api.arg.body.v.reviews.v[i]
        IN r.t = "obj" /\ IsNumeric(Prop(r, "rating")) /\ Prop(r, "text").t \in {"undefined", "str"})
    => LET given == api.arg.body.v.reviews.v
           got == api.out.value.v.reviews.v
       IN /\ ~api.out.raised
          /\ Len(got) = Len(given)
          /\ \A i \in DOMAIN given :
               got[i].v.rating = Clamp(NumberOf(given[i].v.rating))

\* C25: when the reviews endpoint answers 404, getProductReviews returns
\* {reviews: [], averageRating: 0, totalReviews: 0} and collectReviews goes on
\* to record the call; a call whose last page was answered 404 returns the
\* reviews of the pages before it, none after a first page, and does not
\* throw.
C25_NotFoundGivesEmpty ==
  [][LET loc == c[1]
     IN loc.op = "reviews"
          => /\ (loc.pc = "request" /\ c'[1].status = 404)
                  => /\ c'[1].pc = "track"
                     /\ c'[1].resp = <<EmptyReviews>>
                     /\ c'[1].got = 0
             /\ (loc.pc = "update" /\ loc.status = 404 /\ c'[1].pc = "idle")
                  => /\ c'[1].out = "ok"
                     /\ c'[1].returned = loc.all
                     /\ loc.page = 1 => c'[1].returned = 0]_vars

\* the first page of a collectReviews call was answered 404 and the call
\* goes on with the empty response
C25_Witness ==
  /\ c[1].op = "reviews"
  /\ c[1].pc = "update"
  /\ c[1].page = 1
  /\ c[1].status = 404
  /\ c[1].resp = <<EmptyReviews>>

\* s, trimmed and uppercased, has 10 characters, the first a B, the others
\* capital letters or digits
WellFormedAsin(s) ==
  LET t == toUpperCase(trim(s))
  IN /\ Len(t) = 10
     /\ t[1] = "B"
     /\ \A i \in 2..Len(t) : t[i] \in UpperLetters \cup Digits

\* C30: isValidASIN never raises; it is true exactly for a string that,
\* trimmed and uppercased, is a B followed by nine capital letters or digits,
\* and false for everything else, null, undefined and the empty string
\* included.  processProduct raises one of the two invalid-identifier errors
\* exactly when isValidASIN is false of the identifier.
C30_ValidAsin ==
  /\ api.fn = "isValidASIN"
       => /\ ~api.out.raised
          /\ api.out.value.t = "bool"
          /\ api.out.value.v <=> (api.arg.t = "str" /\ WellFormedAsin(api.arg.v))
  /\ api.fn = "processProduct"
       => ((api.out.raised /\ api.out.value \in {ErrAsinNotString, ErrInvalidAsin})
             <=> ~isValidASINOf(Prop(api.arg, "asin")))

\* an identifier typed in lower case between blanks was found valid
C30_Witness ==
  /\ api.fn = "isValidASIN"
  /\ api.arg = Str(AsinARaw)
  /\ api.out = Returns([t |-> "bool", v |-> TRUE])

\* the review has text that is not blank and a rating from 1 to 5
Eligible(review) ==
  /\ Prop(review, "text").t = "str"
  /\ trim(Prop(review, "text").v) # <<>>
  /\ Prop(review, "rating").t = "num"
  /\ Prop(review, "rating").v >= 100
  /\ Prop(review, "rating").v <= 500

\* C31: processReviews does not raise and returns, in the order given, one
\* entity with the given product id for each review that has text that is
\* not blank and a rating from 1 to 5, and none for the others; a review
\* whose date cannot be parsed is kept, its date absent.
C31_ReviewsFiltered ==
  api.fn = "processReviews"
    => LET given == api.arg[1].v.reviews.v
           eligible == SelectSeq(given, Eligible)
           got == api.out.value.v
       IN /\ ~api.out.raised
          /\ Len(got) = Len(eligible)
          /\ \A i \in DOMAIN eligible :
               /\ got[i].v.productId = api.arg[2]
               /\ got[i].v.rating = eligible[i].v.rating
               /\ got[i].v.text = Str(normalizeText(eligible[i].v.text.v))
               /\ Prop(eligible[i], "date") \in {Str(DateNever), Str(DateSoon)}
                    => got[i].v.date = Undefined

\* a list of three reviews, one with a rating of 6 between one whose date
\* cannot be parsed and one whose date is in the endpoint's format, gave two
\* entities, the first without a date
C31_Witness ==
  /\ api.fn = "processReviews"
  /\ Len(api.arg[1].v.reviews.v) = 3
  /\ Prop(api.arg[1].v.reviews.v[1], "date") = Str(DateSoon)
  /\ Prop(api.arg[1].v.reviews.v[2], "rating") = Whole(6)
  /\ Prop(api.arg[1].v.reviews.v[3], "date") = Str(DateReviewed)
  /\ ~api.out.raised
  /\ Len(api.out.value.v) = 2
  /\ api.out.value.v[1].v.date = Undefined
  /\ api.out.value.v[2].v.date = [t |-> "date", v |-> 20231022]

\* the fetch brought a 200 answer with a JSON body
Succeeded(outcome) == outcome.kind = "json"

\* C32: a makeRequest call fetches at most 3 times; every fetch that fails,
\* whatever the failure, uses up one attempt and is followed, before the next
\* attempt, by a sleep of 2^k seconds after attempt k; the call returns the
\* body of the first fetch that succeeds and fetches no more; after a third
\* failure it throws the error of that failure.
C32_RequestBounded ==
  LET n == Len(http.fetched)
  IN /\ n <= 3
     /\ \A k \in 1..(n - 1) : ~Succeeded(http.fetched[k])
     /\ http.pc = "fetch"
          => /\ http.attempt = n + 1
             /\ http.slept = [k \in 1..n |-> (2 ^ k) * 1000]
     /\ http.pc = "sleep"
          => /\ n < 3 /\ ~Succeeded(http.fetched[n])
             /\ http.slept = [k \in 1..n |-> (2 ^ k) * 1000]
     /\ http.pc = "returned"
          => /\ Succeeded(http.fetched[n])
             /\ http.out = <<Answer(SomeBody)>>
             /\ http.slept = [k \in 1..(n - 1) |-> (2 ^ k) * 1000]
     /\ http.pc = "thrown"
          => /\ n = 3
             /\ ~Succeeded(http.fetched[3])
             /\ http.out = <<Failure(http.fetched[3].status)>>
             /\ http.slept = <<2000, 4000>>
     /\ n > 0 /\ Succeeded(http.fetched[n]) => http.pc = "returned"

\* a call was answered 429 three times and threw the error of the third
\* answer, having slept 2 and 4 seconds
C32_Witness ==
  /\ http.pc = "thrown"
  /\ http.fetched = <<Fetched("status", 429), Fetched("status", 429), Fetched("status", 429)>>
  /\ http.slept = <<2000, 4000>>
  /\ http.out = <<Failure(429)>>

\* the step removes job j from the queue and is no suspension of it
Cancels(j) ==
  /\ queue[j].state \in {"waiting", "delayed"}
  /\ queue'[j].state = "removed"
  /\ j \in DOMAIN scrapeJobs => scrapeJobs'[j].status # "suspended"

PassedOver(j) ==
  Len(w[j].items) - Len(w'[j].items) - (IF w'[j].pc = "detail" THEN 1 ELSE 0)

\* C34: in a search job a result whose identifier fails the format check is
\* passed over: it is counted as an error, no detail call and no review call
\* is made for it, no usage is recorded and no row is written; the calls and
\* the rows of a step are those of the result in hand, whose identifier is
\* valid.
C34_InvalidResultCostsNothing ==
  [][\A j \in JobIds :
       (IsSearch(j) /\ Stepped(j))
         => /\ (w[j].pc = "search" /\ w'[j].pc \in LoopPcs \cup {"complete"})
                 => /\ callsUsed' = callsUsed + 1
                    /\ UNCHANGED <<products, prices, reviews>>
                    /\ w'[j].successCount = 0
                    /\ w'[j].errorCount =
                         w'[j].total - Len(w'[j].items) - (IF w'[j].pc = "detail" THEN 1 ELSE 0)
            /\ w'[j].pc = "detail" => isValidASIN(w'[j].item[1].asin)
            /\ w[j].pc \in LoopPcs
                 => /\ isValidASIN(w[j].item[1].asin)
                    /\ \A i \in 1..PassedOver(j) : ~isValidASIN(w[j].items[i].asin)
                    /\ w'[j].errorCount >= w[j].errorCount + PassedOver(j)
                    /\ w'[j].successCount + w'[j].errorCount
                         <= w[j].successCount + w[j].errorCount + 1 + PassedOver(j)
                    /\ callsUsed' - callsUsed
                         <= (CASE w[j].pc = "detail" -> 1 [] w[j].pc = "revfetch" -> 2 [] OTHER -> 0)
                    /\ \A r \in products' \ products : isValidASIN(r.asin)
                    /\ w[j].pc \notin {"upsert", "price", "delete", "insertReview"}
                         => UNCHANGED <<products, prices, reviews>>]_vars

\* a search brought two results, both with an identifier of the wrong
\* format: the job ends with two errors, the search call the only call made
\* and nothing stored
C34_Witness ==
  \E j \in JobIds :
    /\ IsSearch(j) /\ w[j].pc = "complete"
    /\ w[j].total = 2 /\ w[j].errorCount = 2
    /\ callsUsed = 1
    /\ products = {} /\ prices = <<>> /\ reviews = <<>>

\* C35: on the duplicate-key path of processJob, a worker that re-reads the
\* record and finds it suspended returns without marking it running and
\* without dispatching a handler, as it does on the normal path.
C35_FallbackHonoursSuspension ==
  [][\A j \in JobIds :
       (/\ Stepped(j)
        /\ w[j].pc = "recheck"
        /\ HasRow(j)
        /\ scrapeJobs[j].status = "suspended")
         => /\ w'[j].pc = "idle"
            /\ scrapeJobs' = scrapeJobs]_vars

\* the callers whose request was made and is not yet recorded
Unrecorded ==
  {p \in Callers : c[p].op = "product" /\ c[p].pc \in {"track", "track_insert", "update"}}

\* C36: with several jobs in flight on one worker, each checking the usage
\* before and recording it after every external call, the calls made in a
\* month, those recorded and those made and not yet recorded, never exceed
\* the monthly limit.
C36_CallsWithinLimit ==
  \A i \in DOMAIN apiUsage :
    apiUsage[i].callsUsed + Cardinality(Unrecorded) <= apiUsage[i].callsLimit

\* C37: a job record with status completed has no error message, the record
\* of a job that failed on one delivery and succeeded on a later one included
C37_CompletedWithoutError ==
  \A j \in DOMAIN scrapeJobs :
    scrapeJobs[j].status = "completed" => scrapeJobs[j].error = ""

\* job j has fetched its reviews, the fetch delivered no data, and the update
\* of the parent product is the statement it runs in this step
UpdatesAfterNoData(j) ==
  /\ w[j].pc = "r_update"
  /\ w[j].err = ErrTransient
  /\ w'[j].pc = "complete"

\* C38: a review job whose fetch delivers no data, because the reviews
\* endpoint is unavailable or failed, leaves the cached rating and review
\* count of the parent product unchanged
C38_NoDataKeepsRating ==
  [][\A j \in 1..MaxPairJobs : UpdatesAfterNoData(j) => products' = products]_vars

\* job k is between the delete and the last insert of a re-collection of
\* the reviews of product id
Recollecting(k, id) ==
  w[k].pc \in {"delete", "insertReview"} /\ w[k].productId = <<id>>

\* job j stores the last review of the collection embedded in its product
\* response, and no other job is re-collecting the reviews of that product
EndsRecollection(j) ==
  /\ w[j].pc = "insertReview"
  /\ w'[j].pc # "insertReview"
  /\ w[j].item[1].reviews # <<>>
  /\ \A k \in JobIds \ {j} : ~Recollecting(k, w[j].productId[1])

\* C39: when jobs with different ids re-collect the reviews of one product
\* side by side, each deleting all and inserting one by one, then once they
\* have finished the reviews stored for the product are exactly the
\* processed reviews of one collection, without duplicates and without a
\* mixture; stated where the job that finishes last stores its last review
C39_OneCollectionStored ==
  [][\A j \in JobIds :
       EndsRecollection(j)
         => ReviewsOf(reviews', w[j].productId[1])
              = processReviews(transformReviews(w[j].item[1].reviews), w[j].productId[1])]_vars

\* job j was suspended while it waited, which took it off the queue, and
\* has been resumed: its record is pending again
ResumedOffQueue(j) ==
  /\ queue[j].state = "removed"
  /\ j \in DOMAIN scrapeJobs
  /\ scrapeJobs[j].status = "pending"

\* C40: a job that an operator suspended while it waited and later resumed
\* is eventually executed: with the worker running its record leaves pending
\* for running and then completed or failed, unless it is suspended again
C40_ResumedJobRuns ==
  \A j \in 1..MaxJobs :
    ResumedOffQueue(j)
      ~> (j \in DOMAIN scrapeJobs
            /\ scrapeJobs[j].status \in {"completed", "failed", "suspended"})

====
